---- MODULE Spec2Model ----
(***************************************************************************)
(* fern-jest-client: the transport client (FernApiClient: report, ping,   *)
(* the retry interceptor), the Jest reporter that drives it (Spec), and   *)
(* the mapper from Jest results to Fern test runs (SpecMapper).           *)
(*                                                                         *)
(* A JavaScript string whose characters matter (titles, messages, file    *)
(* paths) is the sequence of its characters.                               *)
(* A JavaScript value that may be undefined is a sequence: <<>> is         *)
(* undefined, <<v>> is the value v.                                        *)
(***************************************************************************)
EXTENDS Integers, Sequences, FiniteSets, TLC

\* ---------------------------------------------------------------- bounds
\* Number of call slots of one client (calls that may overlap in time).
NumCalls == 2
\* The options `retries` and `retryDelay` range over undefined and 0..Max.
MaxOptRetries == 2
MaxOptDelay == 1
\* Test files whose start and result the reporter is told of
MaxTestFiles == 1
\* Titles of every length up to MaxTitleLen over TagAlphabet
MaxTitleLen == 3
\* Ancestor titles of a test whose tags are extracted
MaxAncestors == 1
\* Failure messages, and failure details, of one test
MaxFailures == 2
\* Tests of one suite, suites of one run
MaxTests == 2
MaxSuites == 2
MaxIndicators == 2
NumFairCalls == 1

\* ------------------------------------------------------ program constants
\* DEFAULT_CONFIG.RETRIES and DEFAULT_CONFIG.RETRY_DELAY
RETRIES == 3
RETRY_DELAY == 1000

\* ------------------------------------------------------------ JavaScript
Undefined == << >>
Some(v) == << v >>

\* a || b for a number a that may be undefined: 0 and undefined are falsy
JsOr(a, b) == IF a = Undefined \/ a[1] = 0 THEN b ELSE a[1]

\* a >= n for a number a that may be undefined: undefined >= n is false
JsGe(a, n) == a /= Undefined /\ a[1] >= n

\* A number that can be larger than an integer of the model checker (an
\* instant in milliseconds, a seed) is the sequence of its decimal digits in
\* groups of three, the most significant group first and not 0 unless the
\* number is 0: 1761854400000 is << 1, 761, 854, 400, 0 >>, 0 is << 0 >>
Zero == << 0 >>

\* The number n >= 0, an integer of the model checker, in this form
RECURSIVE Num(_)
Num(n) == IF n < 1000 THEN << n >> ELSE Append(Num(n \div 1000), n % 1000)

\* The groups but the last
Front(a) == SubSeq(a, 1, Len(a) - 1)

\* The groups without leading groups of 0
RECURSIVE Normalize(_)
Normalize(a) ==
    IF a = << >> THEN Zero
    ELSE IF Len(a) > 1 /\ a[1] = 0 THEN Normalize(Tail(a))
    ELSE a

\* a + n, n >= 0 an integer of the model checker
RECURSIVE Plus(_, _)
Plus(a, n) ==
    IF n = 0 THEN a
    ELSE IF a = << >> THEN Num(n)
    ELSE LET sum == a[Len(a)] + n
         IN  Append(Plus(Front(a), sum \div 1000), sum % 1000)

\* a * k + carry, 0 < k <= 2^20
RECURSIVE TimesCarry(_, _, _)
TimesCarry(a, k, carry) ==
    IF a = << >> THEN (IF carry = 0 THEN << >> ELSE Num(carry))
    ELSE LET product == a[Len(a)] * k + carry
         IN  Append(TimesCarry(Front(a), k, product \div 1000),
                    product % 1000)

\* a * k, 0 < k <= 2^20
Times(a, k) == Normalize(TimesCarry(a, k, 0))

\* The quotient (its groups, leading zeros included) and the remainder of
\* a by k, 0 < k <= 2^20
RECURSIVE DivRem(_, _)
DivRem(a, k) ==
    IF a = << >> THEN [q |-> << >>, r |-> 0]
    ELSE LET front == DivRem(Front(a), k)
             current == front.r * 1000 + a[Len(a)]
         IN  [q |-> Append(front.q, current \div k), r |-> current % k]

\* a < b
RECURSIVE Less(_, _)
Less(a, b) ==
    IF Len(a) /= Len(b) THEN Len(a) < Len(b)
    ELSE IF a = << >> THEN FALSE
    ELSE IF a[1] /= b[1] THEN a[1] < b[1]
    ELSE Less(Tail(a), Tail(b))

\* The number as an integer of the model checker, when it is one
RECURSIVE ToInt(_)
ToInt(a) == IF a = << >> THEN 0 ELSE ToInt(Front(a)) * 1000 + a[Len(a)]

\* 2^53 = 9007199254740992: every integer up to it is a double
TwoTo53 == << 9, 7, 199, 254, 740, 992 >>

\* The number of low bits an integer loses as a double: the least d with
\* a / 2^d < 2^53
RECURSIVE LostBits(_)
LostBits(a) ==
    IF Less(a, TwoTo53) THEN 0
    ELSE 1 + LostBits(Normalize(DivRem(a, 2).q))

\* The double nearest to the integer a (ties to the even significand): the
\* value of an arithmetic operation whose exact result is a
RoundToDouble(a) ==
    LET d == LostBits(a)
        parts == DivRem(a, 2 ^ d)
        q == Normalize(parts.q)
        up == \/ 2 * parts.r > 2 ^ d
              \/ 2 * parts.r = 2 ^ d /\ q[Len(q)] % 2 = 1
    IN  IF d = 0 THEN a
        ELSE Times(IF up THEN Plus(q, 1) ELSE q, 2 ^ d)

\* ------------------------------------------------------------- transport
Calls == 1..NumCalls

\* What the network does with one HTTP request: a response with a status,
\* or no response at all (with the error code axios reports).
Statuses == {200, 304, 404, 500}
NetworkCodes == {"ECONNREFUSED"}
Outcomes ==
    [response : {Some(s) : s \in Statuses}, code : {"NONE"}]
      \cup [response : {Undefined}, code : NetworkCodes]

OptionValues(max) == {Undefined} \cup {Some(n) : n \in 0..max}

VARIABLES
    options,     \* the FernClientOptions given to the constructor
    client,      \* Undefined, or Some([retries, retryDelay]) of the interceptor
    call,        \* per call slot: the state of one report / ping call
    retryCount,  \* per request config: config.__retryCount
    reporter,    \* the FernReporter, when the client belongs to one
    mapper,      \* one call of a function of the mapper: its arguments and
                 \* (once it has run) the value it returned
    lookup       \* one call of getCIInfo: process.env and (once it has
                 \* run) the value it returned

clientVars == << options, client, call, retryCount >>
vars == << options, client, call, retryCount, reporter, mapper, lookup >>

\* axios' default validateStatus: only 2xx fulfils the request promise
ValidateStatus(status) == status >= 200 /\ status < 300

IsResponse(o) == o.response /= Undefined
Fulfilled(o) == IsResponse(o) /\ ValidateStatus(o.response[1])

\* The AxiosError of a failed attempt, as the interceptor reads it: the
\* request config, the response when one was received, and the error code
\* (of the network failure, or the one axios derives from the status).
AxiosError(o, attempt) ==
    [attempt  |-> attempt,
     response |-> o.response,
     code     |-> IF o.response = Undefined THEN o.code
                  ELSE IF o.response[1] >= 400 /\ o.response[1] < 500
                       THEN "ERR_BAD_REQUEST"
                  ELSE IF o.response[1] >= 500 /\ o.response[1] < 600
                       THEN "ERR_BAD_RESPONSE"
                  ELSE "NONE",
     config   |-> TRUE]

\* FernApiClient.constructor: the arguments of setupRetryInterceptor
NewClient(opts) ==
    [retries    |-> JsOr(opts.retries, RETRIES),
     retryDelay |-> JsOr(opts.retryDelay, RETRY_DELAY)]

NoCall ==
    [op |-> "none", pc |-> "idle", requests |-> 0, failed |-> 0,
     last |-> Undefined, timer |-> Undefined, waited |-> Undefined,
     result |-> "pending", thrown |-> Undefined]

\* Variants of ShouldRetry: one that retries server errors only, one that
\* retries every error response
ShouldRetryServerErrorsOnly(error) ==
    error.response /= Undefined
      /\ error.response[1] >= 500 /\ error.response[1] < 600

ShouldRetryClientErrorsToo(error) ==
    \/ error.response = Undefined
    \/ (error.response[1] >= 400 /\ error.response[1] < 600)

\* The condition of the interceptor under which a failed request is retried
ShouldRetry(error) ==
    \/ error.response = Undefined
    \/ (error.response[1] >= 500 /\ error.response[1] < 600)
    \/ error.code = "ECONNABORTED"
    \/ error.code = "ENOTFOUND"
    \/ error.code = "ECONNRESET"
    \/ error.code = "ECONNREFUSED"

\* Variant of RetriesExhausted that compares with > instead of >=
RetriesExhaustedOffByOne(error, count, retries) ==
    ~error.config \/ (count /= Undefined /\ count[1] > retries)

\* The guard of the interceptor: no config, or the retries are used up
RetriesExhausted(error, count, retries) ==
    ~error.config \/ JsGe(count, retries)

\* Variant of RetryWait with an exponential backoff
RetryWaitExponential(retryDelay, count) == retryDelay * 2 ^ (count - 1)

\* The delay of the timer before the retry numbered count
RetryWait(retryDelay, count) == retryDelay * count

\* Variant of ErrorConfig with one counter kept for the whole client
ErrorConfigShared(c) == 1

\* The request config whose __retryCount the interceptor reads and writes
\* for a failure of call c: error.config, the config of that one request.
ErrorConfig(c) == c

\* report: a fulfilled request returns (both branches of the status test)
ReportFulfilled(status) == "returned"

\* Variants of ReportCatch: one that throws a new error made of the message
\* only, one that swallows the error
ReportCatchWrapped(error) ==
    [result |-> "raised",
     thrown |-> Some([error EXCEPT !.response = Undefined, !.code = "NONE"])]

ReportCatchSwallowed(error) == [result |-> "returned", thrown |-> Undefined]

\* report: the catch block logs the error and throws it again
ReportCatch(error) == [result |-> "raised", thrown |-> Some(error)]

\* ping: the value returned for a fulfilled request
PingFulfilled(status) == IF status >= 200 /\ status < 300 THEN "true" ELSE "false"

\* Variant of PingCatch that throws the error again
PingCatchRethrown(error) == [result |-> "raised", thrown |-> Some(error)]

\* ping: the catch block warns and returns false
PingCatch(error) == [result |-> "false", thrown |-> Undefined]

\* The call's promise settles with a fulfilled response
Fulfil(c, o) ==
    /\ call' = [call EXCEPT ![c].pc = "done",
                            ![c].last = Some([attempt |-> call[c].requests,
                                              response |-> o.response,
                                              code |-> o.code, config |-> TRUE]),
                            ![c].waited = Undefined,
                            ![c].result =
                                IF call[c].op = "report"
                                THEN ReportFulfilled(o.response[1])
                                ELSE PingFulfilled(o.response[1])]
    /\ UNCHANGED retryCount

\* The call's promise settles with a rejection: the catch block of the call
Reject(c, error, count) ==
    LET caught == IF call[c].op = "report" THEN ReportCatch(error)
                  ELSE PingCatch(error)
    IN  /\ call' = [call EXCEPT ![c].pc = "done",
                                ![c].last = Some(error),
                                ![c].failed = @ + 1,
                                ![c].waited = Undefined,
                                ![c].result = caught.result,
                                ![c].thrown = caught.thrown]
        /\ retryCount' = count

\* The rejected handler of the response interceptor, up to its await
Intercept(c, error) ==
    LET cfg == ErrorConfig(c)
        bumped == [retryCount EXCEPT ![cfg] = Some(JsOr(retryCount[cfg], 0) + 1)]
    IN  IF RetriesExhausted(error, retryCount[cfg], client[1].retries)
        THEN Reject(c, error, retryCount)
        ELSE IF ShouldRetry(error)
             THEN /\ call' = [call EXCEPT
                        ![c].pc = "sleeping",
                        ![c].last = Some(error),
                        ![c].failed = @ + 1,
                        ![c].waited = Undefined,
                        ![c].timer = Some(RetryWait(client[1].retryDelay,
                                                    bumped[cfg][1]))]
                  /\ retryCount' = bumped
             ELSE Reject(c, error, bumped)

\* this.httpClient.post / this.httpClient.get: a fresh request config is
\* built and the first request of the call is issued
Issue(c, op) ==
    /\ call[c].op = "none"
    /\ call' = [call EXCEPT ![c] = [NoCall EXCEPT !.op = op,
                                                  !.pc = "inflight",
                                                  !.requests = 1]]
    /\ retryCount' = [retryCount EXCEPT ![c] = Undefined]

\* ------------------------------------------------------------- reporter
\* process.env values and reporter options of the model
EnvValues == {Undefined, Some("true"), Some("false")}
EnabledOptions == {Undefined, Some(TRUE), Some(FALSE)}

\* trace is what the reporter did after its construction, in order: the
\* console lines ("log:..."), the lookups, the mapping and the report call;
\* started and finished count the onTestStart and onTestResult calls
NoReporter ==
    [present |-> FALSE, enabled |-> FALSE, failOnError |-> Undefined,
     debug |-> Undefined, started |-> 0, finished |-> 0, trace |-> << >>,
     run |-> "idle", runCall |-> 0, runResult |-> "pending",
     runThrown |-> Undefined,
     conn |-> "idle", connCall |-> 0, connResult |-> "pending"]

\* FernReporter.constructor: the enabled flag
ReporterEnabled(optEnabled, envEnabled) ==
    optEnabled /= Some(FALSE) /\ envEnabled /= Some("false")

\* FernReporter.constructor: the options createFernClient is given
ReporterClientOptions == [retries |-> Undefined, retryDelay |-> Undefined]

NewReporter(optEnabled, envEnabled, envFailOnError, envDebug) ==
    [NoReporter EXCEPT !.present = TRUE,
                       !.enabled = ReporterEnabled(optEnabled, envEnabled),
                       !.failOnError = envFailOnError,
                       !.debug = envDebug]

\* onTestStart: the console lines it writes, given process.env.FERN_DEBUG
OnTestStartLog(enabled, envDebug) ==
    IF envDebug = Some("true") THEN << "log:test-start" >> ELSE << >>

\* onTestResult: the console lines it writes, given process.env.FERN_DEBUG
OnTestResultLog(enabled, envDebug) ==
    IF envDebug = Some("true") THEN << "log:test-result" >> ELSE << >>

\* onRunComplete up to its await: the first log line, getGitInfo() called
\* (it runs up to its own first await), getCIInfo() run to its end
OnRunCompleteLookups == << "log:collecting", "gitInfo:start", "ciInfo" >>

\* Variant of OnRunCompleteSteps that sends the report before the summary
OnRunCompleteStepsReportFirst ==
    << "gitInfo", "map", "log:sending", "report", "log:summary" >>

\* onRunComplete after its await: Promise.all has resolved with the git
\* information, then lines 63 to 73 in order
OnRunCompleteSteps ==
    << "gitInfo", "map", "log:summary", "log:sending", "report" >>

\* The steps of onRunComplete's try block that can throw before the report
\* is sent, and what the reporter has done when one does: getCIInfo() is
\* called before the await, the others after it
FailingSteps == {"gitInfo", "map", "summary"}
OnRunCompleteStepsUntil(step) ==
    CASE step = "ciInfo" ->
            << "log:collecting", "gitInfo:start", "ciInfo:thrown" >>
      [] step = "gitInfo" -> << "gitInfo:rejected" >>
      [] step = "map" -> << "gitInfo", "map:thrown" >>
      [] step = "summary" -> << "gitInfo", "map", "summary:thrown" >>

\* Variant of OnRunCompleteCatch that always throws
OnRunCompleteCatchRethrown(error, envFailOnError) ==
    [result |-> "raised", thrown |-> Some(error)]

\* Variant of OnRunCompleteCatch that never throws
OnRunCompleteCatchSwallowed(error, envFailOnError) ==
    [result |-> "completed", thrown |-> Undefined]

\* onRunComplete: the catch block, given process.env.FERN_FAIL_ON_ERROR
OnRunCompleteCatch(error, envFailOnError) ==
    IF envFailOnError = Some("true")
    THEN [result |-> "raised", thrown |-> Some(error)]
    ELSE [result |-> "completed", thrown |-> Undefined]

\* --------------------------------------------------------------- strings
\* A JavaScript string whose characters matter is the sequence of its
\* characters; Text(str) below is the string of one message or title.

\* The class [a-zA-Z0-9_-] of atPattern and hashPattern
WordChars == {
    "a", "b", "c", "d", "e", "f", "g", "h", "i", "j", "k", "l", "m", "n",
    "o", "p", "q", "r", "s", "t", "u", "v", "w", "x", "y", "z", "A", "B",
    "C", "D", "E", "F", "G", "H", "I", "J", "K", "L", "M", "N", "O", "P",
    "Q", "R", "S", "T", "U", "V", "W", "X", "Y", "Z", "0", "1", "2", "3",
    "4", "5", "6", "7", "8", "9", "_", "-"}

\* The white space and line terminators String.prototype.trim removes: the
\* code units 9 to 13, 32, 160, 5760, 8192 to 8202, 8232, 8233, 8239, 8287,
\* 12288 and 65279. A character that is not a printable ASCII character
\* and has no escape in a string of TLA+ is the string "U+" followed by the
\* four hexadecimal digits of its code unit.
WhiteSpace == {
    "\t", "\n", "U+000B", "\f", "\r", " ", "U+00A0", "U+1680", "U+2000",
    "U+2001", "U+2002", "U+2003", "U+2004", "U+2005", "U+2006", "U+2007",
    "U+2008", "U+2009", "U+200A", "U+2028", "U+2029", "U+202F", "U+205F",
    "U+3000", "U+FEFF"}

\* str.indexOf(ch, from) with positions from 1, 0 when there is none
RECURSIVE IndexOf(_, _, _)
IndexOf(str, ch, from) ==
    IF from > Len(str) THEN 0
    ELSE IF str[from] = ch THEN from
    ELSE IndexOf(str, ch, from + 1)

\* str.split(sep) for a separator of one character
RECURSIVE Split(_, _)
Split(str, sep) ==
    LET i == IndexOf(str, sep, 1)
    IN  IF i = 0 THEN << str >>
        ELSE << SubSeq(str, 1, i - 1) >>
                \o Split(SubSeq(str, i + 1, Len(str)), sep)

RECURSIVE TrimStart(_)
TrimStart(str) ==
    IF str /= << >> /\ Head(str) \in WhiteSpace THEN TrimStart(Tail(str))
    ELSE str

RECURSIVE TrimEnd(_)
TrimEnd(str) ==
    IF str /= << >> /\ str[Len(str)] \in WhiteSpace
    THEN TrimEnd(SubSeq(str, 1, Len(str) - 1))
    ELSE str

\* str.trim()
Trim(str) == TrimEnd(TrimStart(str))

\* strs.join(sep)
RECURSIVE Join(_, _)
Join(strs, sep) ==
    IF strs = << >> THEN << >>
    ELSE IF Len(strs) = 1 THEN strs[1]
    ELSE strs[1] \o sep \o Join(Tail(strs), sep)

\* str.endsWith(suffix)
EndsWith(str, suffix) ==
    /\ Len(suffix) <= Len(str)
    /\ SubSeq(str, Len(str) - Len(suffix) + 1, Len(str)) = suffix

\* The concatenation of a sequence of sequences (Array.prototype.flat)
RECURSIVE Flat(_)
Flat(seqs) == IF seqs = << >> THEN << >> ELSE Head(seqs) \o Flat(Tail(seqs))

\* ---------------------------------------------------------------- mapper
\* bracketPattern /\[([^\]]+)\]/g and its exec loop: the group of each
\* match, searched from position `from`
RECURSIVE BracketMatches(_, _)
BracketMatches(str, from) ==
    LET lb == IndexOf(str, "[", from)
        rb == IF lb = 0 THEN 0 ELSE IndexOf(str, "]", lb + 1)
    IN  IF lb = 0 \/ rb = 0 THEN << >>
        ELSE IF rb = lb + 1 THEN BracketMatches(str, lb + 1)
        ELSE << SubSeq(str, lb + 1, rb - 1) >>
                \o BracketMatches(str, rb + 1)

\* tagString.split(',').map(t => t.trim()), the non-empty names pushed
BracketNames(tagString) ==
    LET parts == Split(tagString, ",")
        trimmed == [i \in 1..Len(parts) |-> Trim(parts[i])]
        NonEmpty(t) == t /= << >>
    IN  SelectSeq(trimmed, NonEmpty)

\* The last position of the run of word characters that starts at `from`
RECURSIVE WordEnd(_, _)
WordEnd(str, from) ==
    IF from < Len(str) /\ str[from + 1] \in WordChars
    THEN WordEnd(str, from + 1)
    ELSE from

\* atPattern /@([a-zA-Z0-9_-]+)/g and hashPattern /#([a-zA-Z0-9_-]+)/g with
\* their exec loops: the group of each match, searched from position `from`
RECURSIVE MentionMatches(_, _, _)
MentionMatches(str, sign, from) ==
    LET at == IndexOf(str, sign, from)
    IN  IF at = 0 \/ at = Len(str) THEN << >>
        ELSE IF str[at + 1] \notin WordChars
             THEN MentionMatches(str, sign, at + 1)
             ELSE LET last == WordEnd(str, at + 1)
                  IN  << SubSeq(str, at + 1, last) >>
                          \o MentionMatches(str, sign, last + 1)

\* tags.push({ id: 0, name }) for each name: the id is assigned later
UnnumberedTags(names) == [i \in 1..Len(names) |-> [id |-> 0, name |-> names[i]]]

\* Variant of ExtractTagsFromString that runs atPattern and hashPattern
\* before bracketPattern
ExtractTagsFromStringMentionsFirst(str) ==
    LET groups == BracketMatches(str, 1)
    IN  UnnumberedTags(
            MentionMatches(str, "@", 1)
            \o MentionMatches(str, "#", 1)
            \o Flat([i \in 1..Len(groups) |-> BracketNames(groups[i])]))

\* extractTagsFromString: the three patterns in turn
ExtractTagsFromString(str) ==
    LET groups == BracketMatches(str, 1)
    IN  UnnumberedTags(
            Flat([i \in 1..Len(groups) |-> BracketNames(groups[i])])
            \o MentionMatches(str, "@", 1)
            \o MentionMatches(str, "#", 1))

\* The name of the tag of a test without tags
DefaultTagName == << "d", "e", "f", "a", "u", "l", "t" >>

\* extractTagsFromTest, the loop "remove duplicates and assign IDs": seen is
\* the Set, tagId the counter
RECURSIVE UniqueTags(_, _, _)
UniqueTags(tags, tagId, seen) ==
    IF tags = << >> THEN << >>
    ELSE IF Head(tags).name \in seen
    THEN UniqueTags(Tail(tags), tagId, seen)
    ELSE << [id |-> tagId, name |-> Head(tags).name] >>
            \o UniqueTags(Tail(tags), tagId + 1, seen \cup {Head(tags).name})

\* Variant of TagCandidates that walks the ancestor titles from the last to
\* the first
TagCandidatesAncestorsReversed(test) ==
    ExtractTagsFromString(test.title)
    \o Flat([i \in 1..Len(test.ancestorTitles) |->
               ExtractTagsFromString(
                   test.ancestorTitles[Len(test.ancestorTitles) + 1 - i])])

\* extractTagsFromTest, the candidates: the tags of the title, then those of
\* each ancestor title in the order of forEach
TagCandidates(test) ==
    ExtractTagsFromString(test.title)
    \o Flat([i \in 1..Len(test.ancestorTitles) |->
               ExtractTagsFromString(test.ancestorTitles[i])])

\* extractTagsFromTest: the default tag is pushed with tagId++ when there is
\* no candidate, then the loop numbers the tags from the counter as it is
ExtractTagsFromTest(test) ==
    LET found == TagCandidates(test)
        tags == IF Len(found) = 0
                THEN << [id |-> 1, name |-> DefaultTagName] >>
                ELSE found
        tagId == IF Len(found) = 0 THEN 2 ELSE 1
    IN  UniqueTags(tags, tagId, {})

\* Variant of MapJestStatusToFernStatus that reports a todo test as skipped
MapJestStatusToFernStatusTodoSkipped(jestStatus) ==
    CASE jestStatus = "passed" -> "passed"
      [] jestStatus = "failed" -> "failed"
      [] jestStatus \in {"skipped", "pending", "disabled", "todo"} -> "skipped"
      [] OTHER -> "unknown"

\* mapJestStatusToFernStatus
MapJestStatusToFernStatus(jestStatus) ==
    CASE jestStatus = "passed" -> "passed"
      [] jestStatus = "failed" -> "failed"
      [] jestStatus \in {"skipped", "pending", "disabled"} -> "skipped"
      [] jestStatus = "todo" -> "pending"
      [] OTHER -> "unknown"

\* The message of a failed test without failure material
TestFailedText == << "T", "e", "s", "t", " ", "f", "a", "i", "l", "e", "d" >>

\* The text of the failure details: failureDetails.map(d => d.message)
DetailMessages(failureDetails) ==
    [i \in 1..Len(failureDetails) |-> failureDetails[i].message]

\* Variant of ExtractFailureMessage that joins the messages with a blank
ExtractFailureMessageBlankJoined(test) ==
    IF test.status = "passed" THEN << >>
    ELSE IF Len(test.failureMessages) > 0
    THEN Join(test.failureMessages, << " " >>)
    ELSE IF Len(test.failureDetails) > 0
    THEN Join(DetailMessages(test.failureDetails), << " " >>)
    ELSE IF test.status = "failed" THEN TestFailedText ELSE << >>

\* extractFailureMessage
ExtractFailureMessage(test) ==
    IF test.status = "passed" THEN << >>
    ELSE IF Len(test.failureMessages) > 0
    THEN Join(test.failureMessages, << "\n" >>)
    ELSE IF Len(test.failureDetails) > 0
    THEN Join(DetailMessages(test.failureDetails), << "\n" >>)
    ELSE IF test.status = "failed" THEN TestFailedText ELSE << >>

\* Variant of BuildSpecDescription that puts the title first
BuildSpecDescriptionTitleFirst(test) ==
    LET ancestors == Join(test.ancestorTitles, << " ", ">", " " >>)
    IN  IF ancestors /= << >> THEN test.title \o << " ", ">",
          " " >> \o ancestors
        ELSE test.title

\* buildSpecDescription: an empty join counts as no ancestors
BuildSpecDescription(test) ==
    LET ancestors == Join(test.ancestorTitles, << " ", ">", " " >>)
    IN  IF ancestors /= << >> THEN ancestors \o << " ", ">",
          " " >> \o test.title
        ELSE test.title

\* The civil date of the day `days` after 1970-01-01
CivilFromDays(days) ==
    LET z == days + 719468
        era == z \div 146097
        doe == z - era * 146097
        yoe == (doe - doe \div 1460 + doe \div 36524 - doe \div 146096)
                 \div 365
        doy == doe - (365 * yoe + yoe \div 4 - yoe \div 100)
        mp == (5 * doy + 2) \div 153
        m == IF mp < 10 THEN mp + 3 ELSE mp - 9
    IN  [year |-> yoe + era * 400 + (IF m <= 2 THEN 1 ELSE 0),
         month |-> m,
         day |-> doy - (153 * mp + 2) \div 5 + 1]

\* new Date(t).toISOString() for t >= 0 milliseconds after the epoch: the
\* fields of the text YYYY-MM-DDTHH:mm:ss.sssZ
ToISOString(t) ==
    LET seconds == IF Len(t) = 1 THEN Zero ELSE Front(t)
        days == DivRem(seconds, 86400)
        date == CivilFromDays(ToInt(days.q))
    IN  [year |-> date.year, month |-> date.month, day |-> date.day,
         hour |-> days.r \div 3600,
         minute |-> (days.r \div 60) % 60,
         second |-> days.r % 60,
         ms |-> t[Len(t)]]

\* Variant of TestDuration that takes an absent duration as one millisecond
\* and drops a given one
TestDurationDropped(test) == IF test.duration = Undefined THEN 1 ELSE 0

\* mapJestTestToSpecRun: const testDuration = test.duration || 0
TestDuration(test) == JsOr(test.duration, 0)

\* mapJestTestToSpecRun
MapJestTestToSpecRun(test, suiteStartTime, suiteId, specId) ==
    LET testDuration == TestDuration(test)
    IN  [id |-> specId,
         suite_id |-> suiteId,
         spec_description |-> BuildSpecDescription(test),
         status |-> MapJestStatusToFernStatus(test.status),
         message |-> ExtractFailureMessage(test),
         tags |-> ExtractTagsFromTest(test),
         start_time |-> ToISOString(suiteStartTime),
         end_time |-> ToISOString(Plus(suiteStartTime, testDuration))]

\* The endings the pattern /\.(test|spec)\.(js|ts|jsx|tsx)$/ matches
SuiteSuffixes == {
    << ".", "t", "e", "s", "t", ".", "j", "s" >>,
    << ".", "t", "e", "s", "t", ".", "t", "s" >>,
    << ".", "t", "e", "s", "t", ".", "j", "s", "x" >>,
    << ".", "t", "e", "s", "t", ".", "t", "s", "x" >>,
    << ".", "s", "p", "e", "c", ".", "j", "s" >>,
    << ".", "s", "p", "e", "c", ".", "t", "s" >>,
    << ".", "s", "p", "e", "c", ".", "j", "s", "x" >>,
    << ".", "s", "p", "e", "c", ".", "t", "s", "x" >>}

\* Variant of ExtractSuiteName that removes the ending without taking the
\* last part of the path
ExtractSuiteNameWholePath(filePath) ==
    LET matched == {x \in SuiteSuffixes : EndsWith(filePath, x)}
    IN  IF matched = {} THEN filePath
        ELSE SubSeq(filePath, 1,
                    Len(filePath) - Len(CHOOSE x \in matched : TRUE))

\* extractSuiteName: filePath.split('/').pop() || filePath, then the ending
\* is removed
ExtractSuiteName(filePath) ==
    LET parts == Split(filePath, "/")
        last == parts[Len(parts)]
        fileName == IF last /= << >> THEN last ELSE filePath
        matched == {x \in SuiteSuffixes : EndsWith(fileName, x)}
    IN  IF matched = {} THEN fileName
        ELSE SubSeq(fileName, 1,
                    Len(fileName) - Len(CHOOSE x \in matched : TRUE))

\* The k-th reading of the system clock (new Date(), Date.now()) during one
\* mapping: the clock starts at clock.start and advances by clock.step
\* between two readings
Reading(clock, k) == Plus(clock.start, clock.step * (k - 1))

\* An instant that may be undefined used as a condition: 0 and undefined
\* are falsy
Truthy(a) == a /= Undefined /\ a[1] /= Zero

\* Variant of SequenceNumber that numbers from 0
SequenceNumberFromZero(index) == index

\* (item, index) => ...(item, ..., index + 1): the id given to the item at
\* the 0-based position index of its list
SequenceNumber(index) == index + 1

\* Variant of InstantOrNow that always takes the clock
InstantOrNowClockOnly(reported, now) == now

\* reported ? new Date(reported) : new Date(): the instant that is formatted
InstantOrNow(reported, now) == IF Truthy(reported) THEN reported[1] ELSE now

\* The clock readings mapJestSuiteToSuiteRun makes for one suite
SuiteReadings(suite) ==
    (IF Truthy(suite.startTime) THEN 0 ELSE 1 + Len(suite.testResults))
    + (IF Truthy(suite.endTime) THEN 0 ELSE 1)

\* mapJestSuiteToSuiteRun, after `read` readings of the clock
MapJestSuiteToSuiteRun(suite, testRunId, suiteId, clock, read) ==
    LET given == Truthy(suite.startTime)
        readStart == IF given THEN 0 ELSE 1
        readEnd == IF Truthy(suite.endTime) THEN 0 ELSE 1
        startTime ==
            ToISOString(InstantOrNow(suite.startTime, Reading(clock, read + 1)))
        endTime ==
            ToISOString(InstantOrNow(suite.endTime,
                                     Reading(clock, read + readStart + 1)))
        specRuns ==
            [j \in 1..Len(suite.testResults) |->
                MapJestTestToSpecRun(
                    suite.testResults[j],
                    IF given THEN suite.startTime[1]
                    ELSE Reading(clock, read + readStart + readEnd + j),
                    suiteId,
                    SequenceNumber(j - 1))]
    IN  [id |-> suiteId,
         test_run_id |-> testRunId,
         suite_name |-> ExtractSuiteName(suite.testFilePath),
         start_time |-> startTime,
         end_time |-> endTime,
         spec_runs |-> specRuns]

\* The clock readings made for the suites before the i-th
RECURSIVE ReadingsBefore(_, _)
ReadingsBefore(suites, i) ==
    IF i <= 1 THEN 0
    ELSE ReadingsBefore(suites, i - 1) + SuiteReadings(suites[i - 1])

\* Variant of TestRunId that derives the id from a value of its own
TestRunIdOwnValue(testSeed) == Plus(testSeed, 1)

\* mapJestResultsToTestRun: const testRunId = testSeed
TestRunId(testSeed) == testSeed

\* Variant of CountStatus that counts a pending SpecRun as skipped
CountStatusPendingToo(testRun, status) ==
    LET Matches(spec) ==
            \/ spec.status = status
            \/ status = "skipped" /\ spec.status = "pending"
        InSuite(suite) ==
            Len(SelectSeq(suite.spec_runs, Matches))
        Sum[i \in 0 .. Len(testRun.suite_runs)] ==
            IF i = 0 THEN 0 ELSE Sum[i - 1] + InSuite(testRun.suite_runs[i])
    IN Sum[Len(testRun.suite_runs)]

\* generateTestSummary: suite_runs.reduce((sum, suite) => sum +
\* suite.spec_runs.filter(spec => spec.status === status).length, 0)
CountStatus(testRun, status) ==
    LET Matches(spec) == spec.status = status
        InSuite(suite) ==
            Len(SelectSeq(suite.spec_runs, Matches))
        Sum[i \in 0 .. Len(testRun.suite_runs)] ==
            IF i = 0 THEN 0 ELSE Sum[i - 1] + InSuite(testRun.suite_runs[i])
    IN Sum[Len(testRun.suite_runs)]

\* generateTestSummary: suite_runs.reduce((sum, suite) => sum +
\* suite.spec_runs.length, 0)
TotalSpecs(testRun) ==
    LET Sum[i \in 0 .. Len(testRun.suite_runs)] ==
            IF i = 0 THEN 0
            ELSE Sum[i - 1] + Len(testRun.suite_runs[i].spec_runs)
    IN Sum[Len(testRun.suite_runs)]

\* String.prototype.substring(0, end) of a string
SubstringFromStart(str, end) ==
    SubSeq(str, 1, IF end < Len(str) THEN end ELSE Len(str))

\* generateTestSummary: the lines of the summary; the figures of a line are
\* the fields of its record
GenerateTestSummary(testRun) ==
    << "Fern Test Run Summary:",
       [label |-> "  Project: ", value |-> testRun.test_project_id],
       [label |-> "  Branch: ", value |-> testRun.git_branch],
       [label |-> "  Commit: ",
        value |-> SubstringFromStart(testRun.git_sha, 8)],
       [label |-> "  Suites: ", value |-> Len(testRun.suite_runs)],
       [label |-> "  Tests: ",
        total |-> TotalSpecs(testRun),
        passed |-> CountStatus(testRun, "passed"),
        failed |-> CountStatus(testRun, "failed"),
        skipped |-> CountStatus(testRun, "skipped")] >>

\* Variant of GitFields that swaps the branch and the commit
GitFieldsSwapped(gitInfo) ==
    [git_branch |-> gitInfo.sha, git_sha |-> gitInfo.branch]

\* mapJestResultsToTestRun: git_branch: gitInfo.branch, git_sha: gitInfo.sha
GitFields(gitInfo) ==
    [git_branch |-> gitInfo.branch, git_sha |-> gitInfo.sha]

\* mapJestResultsToTestRun: Date.now() * 1000000 + nanoTime, a product and
\* a sum of doubles
TestSeed(now, nanoTime) ==
    RoundToDouble(Plus(RoundToDouble(Times(now, 1000000)), nanoTime))

\* mapJestResultsToTestRun; nanoTime is Number(hrTime % 1000000n)
MapJestResultsToTestRun(results, projectId, projectName, gitInfo, ciInfo, clock, nanoTime) ==
    LET startTime == ToISOString(results.startTime)
        endTime == ToISOString(Reading(clock, 1))
        testSeed == TestSeed(Reading(clock, 2), nanoTime)
        testRunId == TestRunId(testSeed)
        suiteRuns ==
            [i \in 1..Len(results.testResults) |->
                MapJestSuiteToSuiteRun(
                    results.testResults[i], testRunId,
                    SequenceNumber(i - 1), clock,
                    2 + ReadingsBefore(results.testResults, i))]
    IN  [id |-> testRunId,
         test_project_name |-> projectName,
         test_project_id |-> projectId,
         test_seed |-> testSeed,
         start_time |-> startTime,
         end_time |-> endTime,
         git_branch |-> GitFields(gitInfo).git_branch,
         git_sha |-> GitFields(gitInfo).git_sha,
         build_trigger_actor |-> ciInfo.actor,
         build_url |-> ciInfo.buildUrl,
         client_type |-> "fern-jest-client",
         suite_runs |-> suiteRuns]

\* ------------------------------------------------------- CI information
\* process.env[key] || defaultValue, with no defaultValue: an unset variable
\* and one set to the empty string are both undefined
GetEnvVar(env, key) ==
    IF env[key] = Undefined \/ env[key][1] = "" THEN Undefined ELSE env[key]

\* a || b for strings
StringOr(a, b) == IF a = Undefined \/ a[1] = "" THEN b ELSE a[1]

\* A template literal: the pieces in their order; the empty pieces add
\* nothing to the string
Template(pieces) == SelectSeq(pieces, LAMBDA piece : piece /= "")

\* The variables isCI reads, in the order it reads them
CIIndicators ==
    << "CI", "CONTINUOUS_INTEGRATION", "BUILD_NUMBER", "GITHUB_ACTIONS",
       "GITLAB_CI", "CIRCLECI", "JENKINS_URL" >>

\* isCI
IsCI(env) ==
    \E k \in 1..Len(CIIndicators) :
        env[CIIndicators[k]] /= Undefined /\ env[CIIndicators[k]][1] /= ""

\* getCIInfo: the result for GitHub Actions
GitHubActions(env) ==
    LET serverUrl == StringOr(GetEnvVar(env, "GITHUB_SERVER_URL"),
                              "https://github.com")
        repository == StringOr(GetEnvVar(env, "GITHUB_REPOSITORY"), "")
        runId == StringOr(GetEnvVar(env, "GITHUB_RUN_ID"), "")
    IN [actor |-> StringOr(GetEnvVar(env, "GITHUB_ACTOR"), "github-actions"),
        buildUrl |-> Template(<< serverUrl, "/", repository,
                                 "/actions/runs/", runId >>),
        isCI |-> TRUE,
        provider |-> "github-actions"]

\* getCIInfo: the result for GitLab CI
GitLabCI(env) ==
    LET projectUrl == StringOr(GetEnvVar(env, "CI_PROJECT_URL"), "")
        pipelineId == StringOr(GetEnvVar(env, "CI_PIPELINE_ID"), "")
    IN [actor |-> StringOr(GetEnvVar(env, "GITLAB_USER_LOGIN"), "gitlab-ci"),
        buildUrl |-> Template(<< projectUrl, "/-/pipelines/", pipelineId >>),
        isCI |-> TRUE,
        provider |-> "gitlab-ci"]

\* getCIInfo: the result for Jenkins
Jenkins(env) ==
    [actor |-> StringOr(GetEnvVar(env, "BUILD_USER"), "jenkins"),
     buildUrl |-> Template(<< StringOr(GetEnvVar(env, "BUILD_URL"), "") >>),
     isCI |-> TRUE,
     provider |-> "jenkins"]

\* getCIInfo: the result for CircleCI
CircleCI(env) ==
    [actor |-> StringOr(GetEnvVar(env, "CIRCLE_USERNAME"), "circleci"),
     buildUrl |-> Template(<< StringOr(GetEnvVar(env, "CIRCLE_BUILD_URL"),
                                       "") >>),
     isCI |-> TRUE,
     provider |-> "circleci"]

\* getCIInfo: local development
LocalDeveloper ==
    [actor |-> "local-developer", buildUrl |-> Template(<< "" >>),
     isCI |-> FALSE]

\* getCIInfo: a CI that is none of the providers
GenericCI ==
    [actor |-> "ci-user", buildUrl |-> Template(<< "" >>), isCI |-> TRUE,
     provider |-> "unknown"]

\* Variant of GetCIInfo that looks for Jenkins before GitLab CI
GetCIInfoJenkinsSecond(env) ==
    IF GetEnvVar(env, "GITHUB_ACTOR") /= Undefined THEN GitHubActions(env)
    ELSE IF GetEnvVar(env, "BUILD_USER") /= Undefined THEN Jenkins(env)
    ELSE IF GetEnvVar(env, "GITLAB_USER_LOGIN") /= Undefined
         THEN GitLabCI(env)
    ELSE IF GetEnvVar(env, "CIRCLE_USERNAME") /= Undefined THEN CircleCI(env)
    ELSE IF ~IsCI(env) THEN LocalDeveloper
    ELSE GenericCI

\* getCIInfo
GetCIInfo(env) ==
    IF GetEnvVar(env, "GITHUB_ACTOR") /= Undefined THEN GitHubActions(env)
    ELSE IF GetEnvVar(env, "GITLAB_USER_LOGIN") /= Undefined
         THEN GitLabCI(env)
    ELSE IF GetEnvVar(env, "BUILD_USER") /= Undefined THEN Jenkins(env)
    ELSE IF GetEnvVar(env, "CIRCLE_USERNAME") /= Undefined THEN CircleCI(env)
    ELSE IF ~IsCI(env) THEN LocalDeveloper
    ELSE GenericCI

\* No call of getCIInfo is looked at
NoLookup == [env |-> Undefined, out |-> Undefined]

\* ---------------------------------------------------------------- actions
\* client.report(createInput) called directly: the POST is issued
Report(c) ==
    /\ ~reporter.present
    /\ client /= Undefined
    /\ Issue(c, "report")
    /\ UNCHANGED << mapper, lookup, options, client, reporter >>

\* client.ping() called directly: the GET is issued
Ping(c) ==
    /\ ~reporter.present
    /\ client /= Undefined
    /\ Issue(c, "ping")
    /\ UNCHANGED << mapper, lookup, options, client, reporter >>

\* The request in flight of call c ends with outcome o
Respond(c, o) ==
    /\ call[c].pc = "inflight"
    /\ IF Fulfilled(o)
       THEN Fulfil(c, o)
       ELSE Intercept(c, AxiosError(o, call[c].requests))
    /\ UNCHANGED << mapper, lookup, options, client, reporter >>

\* The timer of the interceptor fires: the request is issued again
TimerFire(c) ==
    /\ call[c].pc = "sleeping"
    /\ call' = [call EXCEPT ![c].pc = "inflight",
                            ![c].requests = @ + 1,
                            ![c].last = Undefined,
                            ![c].timer = Undefined,
                            ![c].waited = call[c].timer]
    /\ UNCHANGED << mapper, lookup, options, client, retryCount, reporter >>

\* onTestStart(test): Jest calls it when a test file starts, before
\* onRunComplete
OnTestStart ==
    /\ reporter.present
    /\ reporter.run = "idle"
    /\ reporter.started < MaxTestFiles
    /\ reporter' = [reporter EXCEPT
                      !.started = @ + 1,
                      !.trace = @ \o OnTestStartLog(reporter.enabled,
                                                    reporter.debug)]
    /\ UNCHANGED << mapper, lookup, clientVars >>

\* onTestResult(test, testResult): Jest calls it when a started test file
\* has finished
OnTestResult ==
    /\ reporter.present
    /\ reporter.run = "idle"
    /\ reporter.finished < reporter.started
    /\ reporter' = [reporter EXCEPT
                      !.finished = @ + 1,
                      !.trace = @ \o OnTestResultLog(reporter.enabled,
                                                     reporter.debug)]
    /\ UNCHANGED << mapper, lookup, clientVars >>

\* onRunComplete up to its first await: a disabled reporter returns, an
\* enabled one starts the git and CI lookups
OnRunComplete ==
    /\ reporter.present
    /\ reporter.run = "idle"
    /\ \E ciInfoThrows \in BOOLEAN :
         LET caught == OnRunCompleteCatch([step |-> "ciInfo"],
                                          reporter.failOnError)
         IN  reporter' =
               IF ~reporter.enabled
               THEN [reporter EXCEPT !.run = "done",
                                     !.runResult = "completed"]
               ELSE IF ciInfoThrows
               THEN [reporter EXCEPT
                        !.run = "done",
                        !.runResult = caught.result,
                        !.runThrown = caught.thrown,
                        !.trace = @ \o OnRunCompleteStepsUntil("ciInfo")
                                    \o << "log:error" >>]
               ELSE [reporter EXCEPT !.run = "collecting",
                                     !.trace = @ \o OnRunCompleteLookups]
    /\ UNCHANGED << mapper, lookup, clientVars >>

\* onRunComplete after the lookups, when the git lookup, the mapping or the
\* summary throws: the catch block
OnRunCompleteFailed(step) ==
    /\ reporter.run = "collecting"
    /\ LET caught == OnRunCompleteCatch([step |-> step],
                                        reporter.failOnError)
       IN  reporter' = [reporter EXCEPT
                          !.run = "done",
                          !.runResult = caught.result,
                          !.runThrown = caught.thrown,
                          !.trace = @ \o OnRunCompleteStepsUntil(step)
                                      \o << "log:error" >>]
    /\ UNCHANGED << mapper, lookup, clientVars >>

\* onRunComplete after the lookups: the result is mapped, the summary is
\* logged and client.report is called
OnRunCompleteReport(c) ==
    /\ reporter.run = "collecting"
    /\ Issue(c, "report")
    /\ reporter' = [reporter EXCEPT !.run = "reporting", !.runCall = c,
                                    !.trace = @ \o OnRunCompleteSteps]
    /\ UNCHANGED << mapper, lookup, options, client >>

\* onRunComplete after client.report settled: success, or the catch block
OnRunCompleteSettled ==
    /\ reporter.run = "reporting"
    /\ call[reporter.runCall].pc = "done"
    /\ LET r == call[reporter.runCall]
           caught == OnRunCompleteCatch(r.thrown[1], reporter.failOnError)
       IN  reporter' =
             IF r.result = "raised"
             THEN [reporter EXCEPT !.run = "done",
                                   !.runResult = caught.result,
                                   !.runThrown = caught.thrown,
                                   !.trace = Append(@, "log:error")]
             ELSE [reporter EXCEPT !.run = "done", !.runResult = "completed",
                                   !.trace = Append(@, "log:success")]
    /\ UNCHANGED << mapper, lookup, clientVars >>

\* testConnection of a disabled reporter returns false
TestConnectionDisabled ==
    /\ reporter.present
    /\ reporter.conn = "idle"
    /\ ~reporter.enabled
    /\ reporter' = [reporter EXCEPT !.conn = "done", !.connResult = "false"]
    /\ UNCHANGED << mapper, lookup, clientVars >>

\* testConnection of an enabled reporter calls client.ping
TestConnection(c) ==
    /\ reporter.present
    /\ reporter.conn = "idle"
    /\ reporter.enabled
    /\ Issue(c, "ping")
    /\ reporter' = [reporter EXCEPT !.conn = "pinging", !.connCall = c]
    /\ UNCHANGED << mapper, lookup, options, client >>

\* testConnection after client.ping settled: isHealthy is returned
TestConnectionSettled ==
    /\ reporter.conn = "pinging"
    /\ call[reporter.connCall].pc = "done"
    /\ reporter' = [reporter EXCEPT
                      !.conn = "done",
                      !.connResult =
                         IF call[reporter.connCall].result = "raised"
                         THEN "false"
                         ELSE call[reporter.connCall].result]
    /\ UNCHANGED << mapper, lookup, clientVars >>

\* No function of the mapper is under study
NoMapper == [fn |-> "none", args |-> << >>, out |-> Undefined]

\* A client built directly with createFernClient(projectId, options)
InitClient ==
    /\ options \in [retries : OptionValues(MaxOptRetries),
                    retryDelay : OptionValues(MaxOptDelay)]
    /\ client = Some(NewClient(options))
    /\ reporter = NoReporter

\* A client built by the constructor of a FernReporter
InitReporter ==
    /\ \E optEnabled \in EnabledOptions, envEnabled \in EnvValues,
          envFailOnError \in EnvValues, envDebug \in EnvValues :
          reporter = NewReporter(optEnabled, envEnabled, envFailOnError,
                                 envDebug)
    /\ options = ReporterClientOptions
    /\ client = IF reporter.enabled THEN Some(NewClient(options)) ELSE Undefined

Init ==
    /\ InitClient \/ InitReporter
    /\ call = [c \in Calls |-> NoCall]
    /\ retryCount = [c \in Calls |-> Undefined]
    /\ mapper = NoMapper
    /\ lookup = NoLookup

Next ==
    \/ \E c \in Calls : Report(c)
    \/ \E c \in Calls : Ping(c)
    \/ \E c \in Calls, o \in Outcomes : Respond(c, o)
    \/ \E c \in Calls : TimerFire(c)
    \/ OnTestStart
    \/ OnTestResult
    \/ OnRunComplete
    \/ \E c \in Calls : OnRunCompleteReport(c)
    \/ \E step \in FailingSteps : OnRunCompleteFailed(step)
    \/ OnRunCompleteSettled
    \/ TestConnectionDisabled
    \/ \E c \in Calls : TestConnection(c)
    \/ TestConnectionSettled

Spec == Init /\ [][Next]_vars

\* -------------------------------------------------- the mapper on its own
\* All sequences over S of length up to n
SeqUpTo(S, n) == UNION {[1..k -> S] : k \in 0..n}

\* The characters of the generated titles: a letter in both cases, a second
\* letter, the signs of the three patterns, the separator and the blank
TagAlphabet == {"a", "A", "b", "[", "]", ",", "@", "#", " "}

SampleTitles == {
    << "s", "h", "o", "u", "l", "d", " ", "w", "o", "r", "k", " ", "[", "u",
          "n", "i", "t", "]", " ", "@", "f", "a", "s", "t", " ", "#", "i",
          "n", "t", "e", "g", "r", "a", "t", "i", "o", "n" >>,
    << "#", "x", " ", "@", "y", " ", "[", "z", ",", " ", "w", "]" >>,
    << "f", "a", "s", "t", " ", "@", "f", "a", "s", "t", " ", "#", "f", "a",
          "s", "t", " ", "[", "f", "a", "s", "t", "]" >>,
    << "[", "\f", "u", "n", "i", "t", "U+00A0", ",", "U+000B", "]" >>,
    << "[", "\f", "]" >>}

AncestorSamples == {
    << "@", "a" >>,
    << "G", " ", "[", "b", ",", " ", "a", "]", " ", "#", "A" >>,
    << "p", "l", "a", "i", "n" >>}

Titles == SeqUpTo(TagAlphabet, MaxTitleLen) \cup SampleTitles

\* A JestTestResult: the fields the mapper reads
JestTest(title, ancestorTitles, status, failureMessages, failureDetails, duration) ==
    [title |-> title, ancestorTitles |-> ancestorTitles, status |-> status,
     failureMessages |-> failureMessages,
     failureDetails |-> failureDetails, duration |-> duration]

\* Tests that differ in their title and ancestor titles
TagTests ==
    {JestTest(t, a, "passed", << >>, << >>, Some(5)) :
        t \in Titles, a \in SeqUpTo(AncestorSamples, MaxAncestors)}

\* Tests nested in two describe blocks: the sample titles under every
\* ordered pair of ancestor titles
AncestorPairTests ==
    {JestTest(t, << outer, inner >>, "passed", << >>, << >>, Some(5)) :
        t \in SampleTitles, outer \in AncestorSamples,
        inner \in AncestorSamples}

\* The status values of Jest, and two values outside its type
NativeStatuses ==
    {"passed", "failed", "skipped", "pending", "todo", "disabled",
     "focused", ""}

MessageTexts == {<< >>, << "E", "1" >>, << "E", "2" >>}

\* Tests that differ in their status, failure material and duration
MessageTests ==
    {JestTest(<< "t" >>, << >>, st, fm, fd, du) :
        st \in NativeStatuses,
        fm \in SeqUpTo(MessageTexts, MaxFailures),
        fd \in SeqUpTo([message : MessageTexts], MaxFailures),
        du \in {Undefined, Some(0), Some(5)}}

\* Instants in milliseconds after the epoch: 1970-01-01T00:00:01.000Z, the
\* last millisecond of 2025-10-30, and 2024-02-29T00:00:00.123Z
Instants == {
    << 1, 0 >>,
    << 1, 761, 868, 799, 999 >>,
    << 1, 709, 164, 800, 123 >>}

\* 2025-10-30T20:00:00.000Z
SampleNow == << 1, 761, 854, 400, 0 >>

\* Tests that differ in their duration, started at different instants
TimeInputs ==
    {[test |-> JestTest(<< "t" >>, << >>, "passed", << >>, << >>, du),
      suiteStartTime |-> at, suiteId |-> 1, specId |-> 1] :
        du \in {Undefined, Some(0), Some(1), Some(1500)}, at \in Instants}

\* Titles of describe blocks and tests, the empty title among them
PlainTitles == {<< >>, << "A" >>, << "B" >>, << "C" >>}

\* Tests that differ in their ancestor titles and title
DescriptionTests ==
    {JestTest(t, a, "passed", << >>, << >>, Some(5)) :
        t \in PlainTitles,
        a \in SeqUpTo(PlainTitles, MaxAncestors)
              \cup {<< << "A" >>, << "B" >> >>}}

TestInputs ==
    {[test |-> t, suiteStartTime |-> SampleNow, suiteId |-> 1, specId |-> 1] :
        t \in TagTests \cup MessageTests \cup DescriptionTests}
    \cup {[test |-> t, suiteStartTime |-> SampleNow, suiteId |-> 1,
           specId |-> 1] : t \in AncestorPairTests}
    \cup TimeInputs

TestAdds ==
    JestTest(<< "a", "d", "d", "s" >>, << << "M", "a", "t", "h" >> >>,
          "passed", << >>, << >>,
             Some(5))
TestFails ==
    JestTest(<< "f", "a", "i", "l", "s", " ", "@", "s", "l", "o", "w" >>,
          << >>, "failed", << << "E", "1" >> >>,
             << >>, Undefined)
TestLater ==
    JestTest(<< "l", "a", "t", "e", "r" >>, << << "M", "a", "t", "h" >>,
          << "s", "u", "b" >> >>, "todo", << >>,
             << >>, Some(0))
TestSkips ==
    JestTest(<< "s", "k", "i", "p", "s" >>, << >>, "skipped", << >>, << >>,
                Some(0))
TestOdd ==
    JestTest(<< "o", "d", "d" >>, << >>, "focused", << >>, << >>, Some(2))
SampleTests == {TestAdds, TestFails, TestLater, TestSkips, TestOdd}

SamplePaths == {
    << "/", "p", "/", "a", ".", "t", "e", "s", "t", ".", "t", "s" >>,
    << "b", ".", "s", "p", "e", "c", ".", "j", "s", "x" >>,
    << "/", "p", "/", "c", ".", "j", "s" >>,
    << "c", ".", "t", "s" >>}

\* File paths: a directory part, a base name and an ending
PathDirs == {
    << >>,
    << "/", "a", "/", "b", "/" >>,
    << "/", "a", ".", "t", "e", "s", "t", ".", "t", "s", "/" >>}
PathNames == {
    << "c", "a", "l", "c", "u", "l", "a", "t", "o", "r" >>,
    << "u", "t", "i", "l" >>,
    << "x", ".", "s", "p", "e", "c" >>}
PathEndings == {
    << >>,
    << ".", "t", "s" >>,
    << ".", "t", "e", "s", "t", ".", "t", "s" >>,
    << ".", "s", "p", "e", "c", ".", "j", "s" >>,
    << ".", "t", "e", "s", "t", ".", "j", "s", "x" >>,
    << ".", "s", "p", "e", "c", ".", "t", "s", "x" >>,
    << ".", "T", "e", "s", "t", ".", "t", "s" >>,
    << ".", "t", "e", "s", "t", ".", "m", "j", "s" >>,
    << ".", "t", "e", "s", "t", ".", "t", "s", ".", "s", "n", "a", "p" >>}
FilePaths == {dir \o name \o ending :
                dir \in PathDirs, name \in PathNames, ending \in PathEndings}

\* The system clock: what it shows at the first reading and by how many
\* milliseconds it advances between two readings
Clocks == [start : {SampleNow}, step : {0, 1}]

\* Instants suites report: two of the minute before SampleNow, the last
\* millisecond of that day and an instant of the next day
SuiteStarted == << 1, 761, 854, 340, 100 >>
SuiteEnded == << 1, 761, 854, 340, 200 >>
SuiteStartedLate == << 1, 761, 868, 799, 999 >>
SuiteEndedNextDay == << 1, 761, 868, 800, 200 >>

\* A JestTestSuiteResult: the fields the mapper reads
JestSuite(testFilePath, startTime, endTime, testResults) ==
    [testFilePath |-> testFilePath, startTime |-> startTime,
     endTime |-> endTime, testResults |-> testResults]

SuiteInputs ==
    {[suite |-> JestSuite(p, st, en, ts), testRunId |-> 7, suiteId |-> id,
      clock |-> ck] :
        p \in SamplePaths,
        st \in {Undefined, Some(SuiteStarted), Some(SuiteStartedLate)},
        en \in {Undefined, Some(SuiteEndedNextDay)},
        ts \in SeqUpTo(SampleTests, MaxTests),
        id \in {1, 2}, ck \in Clocks}
    \cup
    {[suite |-> JestSuite(p, Some(SuiteStarted), Some(SuiteEnded), << >>),
      testRunId |-> 7, suiteId |-> 1, clock |-> ck] :
        p \in FilePaths, ck \in Clocks}

SampleSuites == {
    JestSuite(<< "/", "p", "/", "a", ".", "t", "e", "s", "t", ".", "t",
          "s" >>, Some(SuiteStarted), Some(SuiteEnded),
              << TestAdds, TestFails >>),
    JestSuite(<< "b", ".", "s", "p", "e", "c", ".", "j", "s", "x" >>,
          Undefined, Undefined, << TestLater >>),
    JestSuite(<< "/", "p", "/", "c", ".", "j", "s" >>, Some(SuiteEnded),
              Undefined, << >>),
    JestSuite(<< "c", ".", "t", "s" >>, Some(SuiteStarted), Some(SuiteEnded),
              << TestSkips, TestOdd >>)}

\* Git information: a branch and a commit, and the default of getGitInfo
GitInfos == {
    [branch |-> << "m", "a", "i", "n" >>,
     sha |-> << "0", "1", "2", "3", "4", "5", "6", "7", "8", "9", "a", "b",
                "c", "d", "e", "f" >>],
    [branch |-> << "u", "n", "k", "n", "o", "w", "n" >>, sha |-> << "u", "n",
                   "k", "n", "o", "w", "n" >>]}

\* CI information: the local default and a build of a CI provider
CIInfos == {
    [actor |-> "local-developer", buildUrl |-> "", isCI |-> FALSE],
    [actor |-> "octocat", buildUrl |-> "https://ci.example/run/1",
     isCI |-> TRUE]}

ResultsInputs ==
    {[results |-> [startTime |-> st, testResults |-> su],
      projectId |-> id, projectName |-> "project-name",
      gitInfo |-> git, ciInfo |-> ci, clock |-> ck, nanoTime |-> nt] :
        st \in {Zero, SuiteStarted}, su \in SeqUpTo(SampleSuites, MaxSuites),
        id \in {"project-id", "other-id"}, git \in GitInfos, ci \in CIInfos,
        ck \in Clocks, nt \in {129, 999999}}

\* The test runs the reporter summarises: the ones the mapper builds
SummaryInputs ==
    {[testRun |-> MapJestResultsToTestRun(a.results, a.projectId,
                      a.projectName, a.gitInfo, a.ciInfo, a.clock,
                      a.nanoTime)] : a \in ResultsInputs}

\* mapJestTestToSpecRun(test, suiteStartTime, suiteId, specId) is called
MapTest ==
    /\ mapper.fn = "mapJestTestToSpecRun"
    /\ mapper.out = Undefined
    /\ mapper' = [mapper EXCEPT !.out =
           Some(MapJestTestToSpecRun(mapper.args.test,
                                     mapper.args.suiteStartTime,
                                     mapper.args.suiteId,
                                     mapper.args.specId))]
    /\ UNCHANGED << clientVars, reporter, lookup >>

\* mapJestSuiteToSuiteRun(suite, testRunId, suiteId) is called
MapSuite ==
    /\ mapper.fn = "mapJestSuiteToSuiteRun"
    /\ mapper.out = Undefined
    /\ mapper' = [mapper EXCEPT !.out =
           Some(MapJestSuiteToSuiteRun(mapper.args.suite,
                                       mapper.args.testRunId,
                                       mapper.args.suiteId,
                                       mapper.args.clock, 0))]
    /\ UNCHANGED << clientVars, reporter, lookup >>

\* mapJestResultsToTestRun(results, projectId, projectName, gitInfo, ciInfo)
\* is called
MapResults ==
    /\ mapper.fn = "mapJestResultsToTestRun"
    /\ mapper.out = Undefined
    /\ mapper' = [mapper EXCEPT !.out =
           Some(MapJestResultsToTestRun(mapper.args.results,
                                        mapper.args.projectId,
                                        mapper.args.projectName,
                                        mapper.args.gitInfo,
                                        mapper.args.ciInfo,
                                        mapper.args.clock,
                                        mapper.args.nanoTime))]
    /\ UNCHANGED << clientVars, reporter, lookup >>

\* generateTestSummary(testRun) is called
Summarize ==
    /\ mapper.fn = "generateTestSummary"
    /\ mapper.out = Undefined
    /\ mapper' = [mapper EXCEPT !.out =
           Some(GenerateTestSummary(mapper.args.testRun))]
    /\ UNCHANGED << clientVars, reporter, lookup >>

\* One function of the mapper is about to be called with arguments of the
\* families above; no client and no reporter exists
InitMapper ==
    /\ \/ \E a \in TestInputs :
             mapper = [fn |-> "mapJestTestToSpecRun", args |-> a,
                       out |-> Undefined]
       \/ \E a \in SuiteInputs :
             mapper = [fn |-> "mapJestSuiteToSuiteRun", args |-> a,
                       out |-> Undefined]
       \/ \E a \in ResultsInputs :
             mapper = [fn |-> "mapJestResultsToTestRun", args |-> a,
                       out |-> Undefined]
       \/ \E a \in SummaryInputs :
             mapper = [fn |-> "generateTestSummary", args |-> a,
                       out |-> Undefined]
    /\ options = ReporterClientOptions
    /\ client = Undefined
    /\ reporter = NoReporter
    /\ call = [c \in Calls |-> NoCall]
    /\ retryCount = [c \in Calls |-> Undefined]
    /\ lookup = NoLookup

NextMapper == MapTest \/ MapSuite \/ MapResults \/ Summarize

SpecMapper == InitMapper /\ [][NextMapper]_vars


\* ------------------------------------------- the client under fairness
\* A client built directly, no call made yet
InitFair ==
    /\ InitClient
    /\ call = [c \in Calls |-> NoCall]
    /\ retryCount = [c \in Calls |-> Undefined]
    /\ mapper = NoMapper
    /\ lookup = NoLookup

\* The call slots used under fairness
FairCalls == 1..NumFairCalls

NextFair ==
    \/ \E c \in FairCalls : Report(c)
    \/ \E c \in FairCalls : Ping(c)
    \/ \E c \in FairCalls, o \in Outcomes : Respond(c, o)
    \/ \E c \in FairCalls : TimerFire(c)

\* Every request in flight ends with some outcome (the premise of the
\* claim, and axios' timeout), and a timer set with setTimeout fires
Fairness ==
    \A c \in FairCalls :
        /\ WF_vars(\E o \in Outcomes : Respond(c, o))
        /\ WF_vars(TimerFire(c))

SpecFair == InitFair /\ [][NextFair]_vars /\ Fairness

\* ------------------------------------------------ getCIInfo on its own
\* The variables by which getCIInfo recognises a provider, in its order
ActorVariables ==
    << "GITHUB_ACTOR", "GITLAB_USER_LOGIN", "BUILD_USER", "CIRCLE_USERNAME" >>

\* The variables getCIInfo builds the build URL from
UrlVariables ==
    << "GITHUB_SERVER_URL", "GITHUB_REPOSITORY", "GITHUB_RUN_ID",
       "CI_PROJECT_URL", "CI_PIPELINE_ID", "BUILD_URL", "CIRCLE_BUILD_URL" >>

Range(seq) == {seq[k] : k \in 1..Len(seq)}

\* The values of the variables of one kind: unset, set to the empty string
\* or set to a value, with at most max of them set
EnvPart(names, value, max) ==
    {e \in [Range(names) -> {Undefined, Some(""), Some(value)}] :
        Cardinality({n \in Range(names) : e[n] /= Undefined}) <= max}

\* process.env: any choice for the provider variables, the build URL
\* variables all unset or all set, at most MaxIndicators indicators set
Environments ==
    {[n \in Range(ActorVariables) \cup Range(UrlVariables)
            \cup Range(CIIndicators) |->
        IF n \in Range(ActorVariables) THEN actors[n]
        ELSE IF n \in Range(UrlVariables)
             THEN (IF urls THEN Some(n) ELSE Undefined)
        ELSE indicators[n]] :
        actors \in EnvPart(ActorVariables, "octocat", Len(ActorVariables)),
        urls \in BOOLEAN,
        indicators \in EnvPart(CIIndicators, "true", MaxIndicators)}

\* getCIInfo() is called
LookupCI ==
    /\ lookup.env /= Undefined
    /\ lookup.out = Undefined
    /\ lookup' = [lookup EXCEPT !.out = Some(GetCIInfo(lookup.env[1]))]
    /\ UNCHANGED << clientVars, reporter, mapper >>

\* getCIInfo is about to be called in one of the environments
InitCI ==
    /\ \E e \in Environments : lookup = [env |-> Some(e), out |-> Undefined]
    /\ options = ReporterClientOptions
    /\ client = Undefined
    /\ reporter = NoReporter
    /\ call = [c \in Calls |-> NoCall]
    /\ retryCount = [c \in Calls |-> Undefined]
    /\ mapper = NoMapper

NextCI == LookupCI

SpecCI == InitCI /\ [][NextCI]_vars

\* ------------------------------------------------------------ properties
\* The vocabulary of the properties (the spec's words, not the code's)
MaxRetries == client[1].retries
RetryBaseDelay == client[1].retryDelay

IsReport(c) == call[c].op = "report"
IsPing(c) == call[c].op = "ping"
Done(c) == call[c].pc = "done"
HasOutcome(c) == call[c].last /= Undefined
LastOutcome(c) == call[c].last[1]

Is2xx(e) == e.response /= Undefined /\ e.response[1] >= 200 /\ e.response[1] < 300
Is4xx(e) == e.response /= Undefined /\ e.response[1] >= 400 /\ e.response[1] < 500
Is5xx(e) == e.response /= Undefined /\ e.response[1] >= 500 /\ e.response[1] < 600
\* A retryable failure: no response received, or a response with a 5xx status
RetryableFailure(e) == e.response = Undefined \/ Is5xx(e)

\* C1: in a report call, after k <= maxRetries attempts that each failed
\* retryably the next attempt is made (the call waits for its retry, it does
\* not end), and when an attempt receives a 2xx response after k failed
\* attempts report returns success with exactly k + 1 requests issued.
C1_RetryUntilSuccess ==
    \A c \in Calls : IsReport(c) /\ HasOutcome(c) =>
        /\ (RetryableFailure(LastOutcome(c)) /\ call[c].failed <= MaxRetries)
              => call[c].pc = "sleeping"
        /\ Is2xx(LastOutcome(c))
              => /\ Done(c)
                 /\ call[c].result = "returned"
                 /\ call[c].requests = call[c].failed + 1

\* Two failures, then success on the third attempt, with maxRetries >= 3
C1_Witness ==
    \E c \in Calls :
        /\ IsReport(c) /\ Done(c) /\ call[c].result = "returned"
        /\ call[c].failed = 2 /\ call[c].requests = 3
        /\ MaxRetries >= 3

\* C2: an attempt of a report call that receives a 4xx response is terminal:
\* the call has ended by raising and no request was issued after that
\* attempt (one request in all when it was the first attempt).
C2_ClientErrorIsTerminal ==
    \A c \in Calls : IsReport(c) /\ HasOutcome(c) /\ Is4xx(LastOutcome(c)) =>
        /\ Done(c)
        /\ call[c].result = "raised"
        /\ call[c].requests = LastOutcome(c).attempt
        /\ call[c].timer = Undefined

\* A 404 on the first attempt: report raised after one request
C2_Witness ==
    \E c \in Calls :
        /\ IsReport(c) /\ Done(c) /\ call[c].result = "raised"
        /\ LastOutcome(c).response = Some(404)
        /\ call[c].requests = 1 /\ retryCount[c] = Some(1)

\* C3: the error a failed report call raises is the error of the last
\* attempt made, unchanged: with the response and status when one was
\* received, without a response when none was.
C3_LastErrorSurfaced ==
    \A c \in Calls : IsReport(c) /\ call[c].result = "raised" =>
        /\ call[c].thrown = call[c].last
        /\ call[c].thrown /= Undefined
        /\ call[c].thrown[1].attempt = call[c].requests

\* report raised the 5xx error of its last attempt after using up its retries
C3_Witness ==
    \E c \in Calls :
        /\ IsReport(c) /\ call[c].result = "raised"
        /\ call[c].requests = MaxRetries + 1
        /\ call[c].thrown[1].response = Some(500)
        /\ call[c].thrown[1].attempt = MaxRetries + 1

\* C4: a report call that ended returned without raising if and only if its
\* final attempt received a 2xx response; otherwise it raised.
C4_ReturnsIffSuccess ==
    \A c \in Calls : IsReport(c) /\ Done(c) =>
        /\ call[c].result \in {"returned", "raised"}
        /\ (call[c].result = "returned") <=> Is2xx(LastOutcome(c))

\* report raised on a 3xx response, which is neither 2xx, 4xx nor 5xx
C4_Witness ==
    \E c \in Calls :
        /\ IsReport(c) /\ Done(c) /\ call[c].result = "raised"
        /\ LastOutcome(c).response = Some(304)

\* C5 as stated: a ping call issues exactly one GET request and is never
\* retried, whatever the outcome of that request.
C5_PingNeverRetried ==
    \A c \in Calls : IsPing(c) => call[c].requests = 1 /\ call[c].pc /= "sleeping"

\* C5 amended: the retry policy applies to ping as it does to report. After a
\* retryable failure of a ping's GET with at most maxRetries failed attempts
\* the GET is issued again; a 2xx, 3xx or 4xx response ends the call with no
\* further request; a ping issues at most maxRetries + 1 requests.
C5_PingRetriedLikeReport ==
    \A c \in Calls : IsPing(c) =>
        /\ call[c].requests <= MaxRetries + 1
        /\ HasOutcome(c) =>
             /\ (RetryableFailure(LastOutcome(c)) /\ call[c].failed <= MaxRetries)
                   => call[c].pc = "sleeping"
             /\ (RetryableFailure(LastOutcome(c)) /\ call[c].failed > MaxRetries)
                   => Done(c)
             /\ ~RetryableFailure(LastOutcome(c))
                   => Done(c) /\ call[c].requests = LastOutcome(c).attempt

\* A ping that ended after maxRetries + 1 > 1 requests
C5_Witness ==
    \E c \in Calls :
        /\ IsPing(c) /\ Done(c)
        /\ call[c].requests = MaxRetries + 1
        /\ call[c].requests > 1

\* C6: ping never raises; it returns true if and only if its final attempt
\* received a 2xx response, and false for a network error and for every
\* other response.
C6_PingNeverRaises ==
    \A c \in Calls : IsPing(c) =>
        /\ call[c].result \in {"pending", "true", "false"}
        /\ call[c].thrown = Undefined
        /\ Done(c) => /\ call[c].result \in {"true", "false"}
                      /\ (call[c].result = "true") <=> Is2xx(LastOutcome(c))

\* A ping that returned false because no response was received
C6_Witness ==
    \E c \in Calls :
        /\ IsPing(c) /\ Done(c) /\ call[c].result = "false"
        /\ LastOutcome(c).response = Undefined

\* C7: every report call has its own retry counter. The counter of a call
\* counts the failed attempts of that call alone (up to maxRetries), whatever
\* the other calls of the client do, and a report call that ends on a
\* retryable failure has made all of its maxRetries retries.
C7_RetryCounterPerCall ==
    \A c \in Calls : IsReport(c) =>
        /\ retryCount[c] =
              IF call[c].failed = 0 THEN Undefined
              ELSE IF call[c].failed <= MaxRetries THEN Some(call[c].failed)
              ELSE Some(MaxRetries)
        /\ (Done(c) /\ RetryableFailure(LastOutcome(c)))
              => call[c].requests = MaxRetries + 1

\* Two report calls of one client: the first has ended after using all its
\* retries, the second still waits for its own last retry
C7_Witness ==
    \E c1, c2 \in Calls :
        /\ c1 /= c2 /\ IsReport(c1) /\ IsReport(c2)
        /\ Done(c1) /\ call[c1].requests = MaxRetries + 1
        /\ call[c1].result = "raised"
        /\ call[c2].pc = "sleeping" /\ call[c2].failed = MaxRetries
        /\ MaxRetries >= 2

\* C8: the retry count and the retry base delay of the client are the values
\* given at construction, for every non-negative integer including 0 (with
\* retries = 0 no retry is ever made); the defaults apply only when the
\* option is not given.
C8_OptionsUsedAsGiven ==
    (client /= Undefined) =>
        /\ MaxRetries =
              IF options.retries = Undefined THEN RETRIES ELSE options.retries[1]
        /\ RetryBaseDelay =
              IF options.retryDelay = Undefined THEN RETRY_DELAY
              ELSE options.retryDelay[1]
        /\ (options.retries = Some(0))
              => \A c \in Calls : call[c].requests <= 1

\* C9: while a call waits for its N-th retry the timer it waits for was set
\* to retryBaseDelay * N (N the number of failed attempts so far), and the
\* N-th retry, request N + 1, is in flight only after that timer ran out.
C9_LinearRetryDelay ==
    \A c \in Calls :
        /\ call[c].pc = "sleeping"
              => call[c].timer = Some(RetryBaseDelay * call[c].failed)
        /\ (call[c].pc = "inflight" /\ call[c].requests > 1)
              => call[c].waited = Some(RetryBaseDelay * (call[c].requests - 1))
        /\ (call[c].pc = "inflight" /\ call[c].requests = 1)
              => call[c].waited = Undefined

\* The third retry of a report call is in flight after a wait of 3 delays
C9_Witness ==
    \E c \in Calls :
        /\ IsReport(c) /\ call[c].pc = "inflight" /\ call[c].requests = 4
        /\ call[c].waited = Some(3 * RetryBaseDelay)

\* C10: when the report call of onRunComplete of an enabled reporter raised,
\* onRunComplete completes normally if FERN_FAIL_ON_ERROR is not 'true', and
\* raises the error report raised if it is.
C10_FailOnError ==
    (/\ reporter.present /\ reporter.enabled /\ reporter.run = "done"
     /\ reporter.runCall \in Calls
     /\ call[reporter.runCall].result = "raised")
    => IF reporter.failOnError = Some("true")
       THEN /\ reporter.runResult = "raised"
            /\ reporter.runThrown = call[reporter.runCall].thrown
            /\ reporter.runThrown /= Undefined
       ELSE /\ reporter.runResult = "completed"
            /\ reporter.runThrown = Undefined

\* onRunComplete raised the 404 error of report, FERN_FAIL_ON_ERROR being set
C10_Witness ==
    /\ reporter.present /\ reporter.enabled /\ reporter.run = "done"
    /\ reporter.failOnError = Some("true")
    /\ reporter.runCall \in Calls
    /\ reporter.runResult = "raised"
    /\ reporter.runThrown[1].response = Some(404)

\* Positions of an event in what the reporter did
Positions(event) == {i \in 1..Len(reporter.trace) : reporter.trace[i] = event}
Happened(event) == Positions(event) /= {}
\* Every occurrence of `first` comes before every occurrence of `then`
Precedes(first, then) ==
    \A i \in Positions(first), j \in Positions(then) : i < j
ReportCalls == {c \in Calls : call[c].op = "report"}

\* C11: a disabled reporter constructs no transport client and, after its
\* construction, writes no log line, makes no git or CI lookup, maps nothing
\* and issues no HTTP request, whatever hooks are invoked and whatever
\* FERN_DEBUG is.
C11_DisabledIsNoOp ==
    (reporter.present /\ ~reporter.enabled) =>
        /\ client = Undefined
        /\ reporter.trace = << >>
        /\ \A c \in Calls : call[c].op = "none"

\* C12: within one run completion of an enabled reporter, report is invoked
\* only after the git lookup and the CI lookup have both completed and the
\* summary has been logged, the mapping comes before the summary, and report
\* is invoked at most once.
C12_ReportAfterLookupsAndSummary ==
    reporter.present =>
        /\ Cardinality(ReportCalls) <= 1
        /\ Cardinality(Positions("report")) <= 1
        /\ Happened("report") <=> ReportCalls /= {}
        /\ Happened("report") =>
              /\ Happened("gitInfo") /\ Precedes("gitInfo", "map")
              /\ Happened("ciInfo") /\ Precedes("ciInfo", "map")
              /\ Happened("map") /\ Precedes("map", "log:summary")
              /\ Happened("log:summary") /\ Precedes("log:summary", "report")

\* A run completion that reported and has ended
C12_Witness ==
    /\ reporter.present /\ reporter.enabled
    /\ reporter.run = "done"
    /\ Happened("report")
    /\ ReportCalls = {reporter.runCall}

\* ------------------------------------------------- properties of the mapper
MappedTest == mapper.fn = "mapJestTestToSpecRun" /\ mapper.out /= Undefined
MappedSuite == mapper.fn = "mapJestSuiteToSuiteRun" /\ mapper.out /= Undefined
MappedResults ==
    mapper.fn = "mapJestResultsToTestRun" /\ mapper.out /= Undefined
\* The value the function returned
Out == mapper.out[1]

\* The title of a test and its ancestor titles, in the given order
TitleAndAncestors(test) == << test.title >> \o test.ancestorTitles

\* A bracket marker starts at i: an opening bracket that is not inside an
\* earlier open group, with a closing bracket after at least one character
BracketStarts(str) ==
    {i \in 1..Len(str) :
        /\ str[i] = "["
        /\ \A k \in 1..(i - 1) :
              str[k] = "[" => \E m \in (k + 1)..(i - 1) : str[m] = "]"
        /\ \E j \in (i + 2)..Len(str) :
              str[j] = "]" /\ \A m \in (i + 1)..(j - 1) : str[m] /= "]"}

\* An at- or hash-marker starts at i: the sign followed by a word character
MentionStarts(str, sign) ==
    {i \in 1..(Len(str) - 1) : str[i] = sign /\ str[i + 1] \in WordChars}

HasMarker(str) ==
    \/ BracketStarts(str) /= {}
    \/ MentionStarts(str, "@") /= {}
    \/ MentionStarts(str, "#") /= {}

TestHasMarker(test) ==
    \E i \in 1..Len(TitleAndAncestors(test)) :
        HasMarker(TitleAndAncestors(test)[i])

Names(tags) == [i \in 1..Len(tags) |-> tags[i].name]

\* C13: a test whose title and ancestor titles contain no bracket, at- or
\* hash-marker is mapped to exactly one tag, {id: 1, name: "default"}.
C13_DefaultTag ==
    (MappedTest /\ ~TestHasMarker(mapper.args.test)) =>
        Out.tags = << [id |-> 1, name |-> DefaultTagName] >>

\* C14: the tags of a test with at least one marker in its title or ancestor
\* titles have pairwise distinct names and the ids 1, 2, ..., n in list
\* order.
C14_DistinctNamesDenseIds ==
    (MappedTest /\ TestHasMarker(mapper.args.test)) =>
        /\ \A i, j \in 1..Len(Out.tags) :
              Out.tags[i].name = Out.tags[j].name => i = j
        /\ \A i \in 1..Len(Out.tags) : Out.tags[i].id = i

\* The elements of a finite set of numbers in ascending order
RECURSIVE Ascending(_)
Ascending(S) ==
    IF S = {} THEN << >>
    ELSE LET least == CHOOSE x \in S : \A y \in S : x <= y
         IN  << least >> \o Ascending(S \ {least})

\* The text of the bracket group that starts at i: up to the next closing
\* bracket
GroupAt(str, i) ==
    SubSeq(str, i + 1,
           (CHOOSE j \in (i + 2)..Len(str) :
               str[j] = "]" /\ \A m \in (i + 1)..(j - 1) : str[m] /= "]") - 1)

\* The name of the mention that starts at i: the longest run of word
\* characters after the sign
NameAt(str, i) ==
    SubSeq(str, i + 1,
           CHOOSE j \in (i + 1)..Len(str) :
               /\ \A m \in (i + 1)..j : str[m] \in WordChars
               /\ j < Len(str) => str[j + 1] \notin WordChars)

\* The candidate names of one string in the order the specification gives:
\* the names of the bracket groups from left to right, then the at-mentions
\* from left to right, then the hash-mentions from left to right
OrderedNames(str) ==
    LET groups == Ascending(BracketStarts(str))
        ats == Ascending(MentionStarts(str, "@"))
        hashes == Ascending(MentionStarts(str, "#"))
    IN  Flat([k \in 1..Len(groups) |-> BracketNames(GroupAt(str, groups[k]))])
        \o [k \in 1..Len(ats) |-> NameAt(str, ats[k])]
        \o [k \in 1..Len(hashes) |-> NameAt(str, hashes[k])]

\* The candidate names of a test: those of its title, then those of each
\* ancestor title in the given order
OrderedCandidates(test) ==
    Flat([i \in 1..Len(TitleAndAncestors(test)) |->
             OrderedNames(TitleAndAncestors(test)[i])])

\* The first occurrences of the names of a sequence, in order
FirstOccurrences(names) ==
    LET First(i) == \A k \in 1..(i - 1) : names[k] /= names[i]
        kept == Ascending({i \in 1..Len(names) : First(i)})
    IN  [k \in 1..Len(kept) |-> names[kept[k]]]

\* C15: tag candidates come in a fixed order: within one string the names of
\* all bracket groups, then all @-mentions, then all #-mentions, each from
\* left to right wherever the markers stand; across strings the title first,
\* then each ancestor title in the given order. The tags of the SpecRun are
\* the first occurrences of the candidates in that order; "should work
\* [unit] @fast #integration" yields unit, fast, integration.
C15_CandidateOrder ==
    MappedTest =>
        /\ Names(TagCandidates(mapper.args.test))
              = OrderedCandidates(mapper.args.test)
        /\ OrderedCandidates(mapper.args.test) /= << >>
              => Names(Out.tags)
                    = FirstOccurrences(OrderedCandidates(mapper.args.test))
        /\ (/\ mapper.args.test.title
                  = << "s", "h", "o", "u", "l", "d", " ", "w", "o", "r", "k",
                        " ", "[", "u", "n", "i", "t", "]", " ", "@", "f", "a",
                        "s", "t", " ", "#", "i", "n", "t", "e", "g", "r", "a",
                        "t", "i", "o", "n" >>
            /\ mapper.args.test.ancestorTitles = << >>)
              => Names(Out.tags) = << << "u", "n", "i", "t" >>,
                                      << "f", "a", "s", "t" >>,
                                      << "i", "n", "t", "e", "g", "r", "a",
                                            "t", "i", "o", "n" >> >>

\* Hash, at and bracket markers stand in the opposite order in the title,
\* and two ancestors with markers of their own add names after those of the
\* title: a from the outer ancestor, then b and A from the inner one, whose
\* own a is a repetition. With the ancestors taken from the inner to the
\* outer the tags would end b, a, A.
C15_Witness ==
    /\ MappedTest
    /\ mapper.args.test.title = << "#", "x", " ", "@", "y", " ", "[", "z",
          ",", " ", "w", "]" >>
    /\ mapper.args.test.ancestorTitles
          = << << "@", "a" >>,
               << "G", " ", "[", "b", ",", " ", "a", "]", " ", "#", "A" >> >>
    /\ Names(TagCandidates(mapper.args.test))
          = << << "z" >>, << "w" >>, << "y" >>, << "x" >>,
               << "a" >>, << "b" >>, << "a" >>, << "A" >> >>
    /\ Names(Out.tags) = << << "z" >>, << "w" >>, << "y" >>, << "x" >>,
                            << "a" >>, << "b" >>, << "A" >> >>

\* The reported status values
ReportedStatuses == {"passed", "failed", "skipped", "pending", "unknown"}

\* C16: a test whose reported status is passed or skipped (native passed,
\* skipped, pending or disabled) has the empty string as its message,
\* whatever failureMessages and failureDetails contain.
C16_NoMessageUnlessFailed ==
    (MappedTest /\ mapper.args.test.status
                      \in {"passed", "skipped", "pending", "disabled"}) =>
        /\ Out.status \in {"passed", "skipped"}
        /\ Out.message = << >>

\* C17 as claimed: the message of a failed test is the failure messages
\* joined by newline, else a single failure-detail message, else "Test
\* failed", and it is never empty.
C17_FailedMessageSingleDetail ==
    (MappedTest /\ mapper.args.test.status = "failed") =>
        LET fm == mapper.args.test.failureMessages
            fd == mapper.args.test.failureDetails
        IN  /\ fm /= << >> => Out.message = Join(fm, << "\n" >>)
            /\ (fm = << >> /\ fd /= << >>) =>
                  \E i \in 1..Len(fd) : Out.message = fd[i].message
            /\ (fm = << >> /\ fd = << >>) => Out.message = TestFailedText
            /\ Out.message /= << >>

\* C17: the message of a failed test is its failure messages joined by
\* newline in their order; without failure messages, the messages of all its
\* failure details joined by newline in their order; without either, "Test
\* failed". It is empty only when the messages or details it is made of are
\* all empty strings.
C17_FailedMessage ==
    (MappedTest /\ mapper.args.test.status = "failed") =>
        LET fm == mapper.args.test.failureMessages
            fd == mapper.args.test.failureDetails
            used == IF fm /= << >> THEN fm
                    ELSE [i \in 1..Len(fd) |-> fd[i].message]
        IN  /\ used /= << >> => Out.message = Join(used, << "\n" >>)
            /\ used = << >> => Out.message = TestFailedText
            /\ Out.message = << >> =>
                  /\ used /= << >>
                  /\ \A i \in 1..Len(used) : used[i] = << >>

\* A failed test without failure messages and with two failure details
C17_Witness ==
    /\ MappedTest
    /\ mapper.args.test.status = "failed"
    /\ mapper.args.test.failureMessages = << >>
    /\ Len(mapper.args.test.failureDetails) = 2
    /\ Out.message = << "E", "1", "\n", "E", "2" >>

\* The table of the status normalizer
NormalizedStatus ==
    [passed |-> "passed", failed |-> "failed", skipped |-> "skipped",
     pending |-> "skipped", disabled |-> "skipped", todo |-> "pending"]

\* C18: the status normalizer is total: passed -> passed, failed -> failed,
\* skipped, pending and disabled -> skipped, todo -> pending, every other
\* value -> unknown; every SpecRun status is one of the five reported values.
C18_StatusNormalizerTotal ==
    MappedTest =>
        /\ Out.status \in ReportedStatuses
        /\ Out.status =
              IF mapper.args.test.status \in DOMAIN NormalizedStatus
              THEN NormalizedStatus[mapper.args.test.status]
              ELSE "unknown"

\* A todo test is reported as pending
C18_Witness ==
    /\ MappedTest
    /\ mapper.args.test.status = "todo"
    /\ Out.status = "pending"

\* The SpecRuns of a SuiteRun answer the tests of the suite one for one, in
\* the order of the suite, numbered from 1
SpecRunsFollow(suite, suiteRun) ==
    /\ Len(suiteRun.spec_runs) = Len(suite.testResults)
    /\ \A j \in 1..Len(suite.testResults) :
          /\ suiteRun.spec_runs[j].id = j
          /\ suiteRun.spec_runs[j].spec_description =
                BuildSpecDescription(suite.testResults[j])

\* C19: mapping preserves order and numbers from 1: the TestRun has one
\* SuiteRun per input suite, in input order, the i-th with id i; each
\* SuiteRun has one SpecRun per input test, in input order, the j-th with
\* id j.
C19_OrderAndSequentialIds ==
    /\ MappedResults =>
          LET suites == mapper.args.results.testResults
          IN  /\ Len(Out.suite_runs) = Len(suites)
              /\ \A i \in 1..Len(suites) :
                    /\ Out.suite_runs[i].id = i
                    /\ Out.suite_runs[i].suite_name
                          = ExtractSuiteName(suites[i].testFilePath)
                    /\ SpecRunsFollow(suites[i], Out.suite_runs[i])
    /\ MappedSuite => SpecRunsFollow(mapper.args.suite, Out)

\* A run of two suites of different files, the first with two tests
C19_Witness ==
    /\ MappedResults
    /\ Len(Out.suite_runs) = 2
    /\ Out.suite_runs[1].suite_name /= Out.suite_runs[2].suite_name
    /\ Len(Out.suite_runs[1].spec_runs) = 2
    /\ Out.suite_runs[1].spec_runs[1].spec_description
          /= Out.suite_runs[1].spec_runs[2].spec_description
    /\ Out.suite_runs[2].id = 2
    /\ Out.suite_runs[1].spec_runs[2].id = 2

\* C20: in a mapped TestRun id equals test_seed, every SuiteRun.test_run_id
\* equals the id of the TestRun and every SpecRun.suite_id equals the id of
\* the SuiteRun that contains it.
C20_IdsLinkToParent ==
    /\ MappedResults =>
          /\ Out.id = Out.test_seed
          /\ \A i \in 1..Len(Out.suite_runs) :
                /\ Out.suite_runs[i].test_run_id = Out.id
                /\ \A j \in 1..Len(Out.suite_runs[i].spec_runs) :
                      Out.suite_runs[i].spec_runs[j].suite_id
                         = Out.suite_runs[i].id
    /\ MappedSuite =>
          /\ Out.test_run_id = mapper.args.testRunId
          /\ \A j \in 1..Len(Out.spec_runs) :
                Out.spec_runs[j].suite_id = Out.id

\* A run of two suites with tests, its seed made of a clock reading and a
\* sub-millisecond part
C20_Witness ==
    /\ MappedResults
    /\ mapper.args.clock.step = 1 /\ mapper.args.nanoTime = 129
    /\ Out.test_seed = << 1, 761, 854, 400, 1, 0, 192 >>
    /\ Out.test_seed
          /= Plus(Times(Reading(mapper.args.clock, 2), 1000000), 129)
    /\ Len(Out.suite_runs) = 2
    /\ Out.suite_runs[2].spec_runs /= << >>
    /\ Out.suite_runs[2].spec_runs[1].suite_id = 2
    /\ Out.suite_runs[2].test_run_id = Out.test_seed

\* The days from 1970-01-01 to a civil date
DaysFromCivil(year, month, day) ==
    LET y == IF month <= 2 THEN year - 1 ELSE year
        era == y \div 400
        yoe == y - era * 400
        mp == IF month > 2 THEN month - 3 ELSE month + 9
        doy == (153 * mp + 2) \div 5 + day - 1
        doe == yoe * 365 + yoe \div 4 - yoe \div 100 + doy
    IN  era * 146097 + doe - 719468

\* The instant an ISO text names, in milliseconds after the epoch
InstantOf(iso) ==
    Plus(Times(Times(Num(DaysFromCivil(iso.year, iso.month, iso.day)), 86400),
               1000),
         iso.hour * 3600000 + iso.minute * 60000 + iso.second * 1000 + iso.ms)

\* C21: the start_time of a SpecRun is the suite start instant passed to
\* mapJestTestToSpecRun, its end_time is that instant plus the duration of
\* the test (0 when the duration is absent), and end_time >= start_time.
C21_SpecRunTimes ==
    MappedTest =>
        LET given == mapper.args.test.duration
            duration == IF given = Undefined THEN 0 ELSE given[1]
        IN  /\ InstantOf(Out.start_time) = mapper.args.suiteStartTime
            /\ InstantOf(Out.end_time)
                  = Plus(mapper.args.suiteStartTime, duration)
            /\ ~Less(InstantOf(Out.end_time), InstantOf(Out.start_time))

\* A test of 1500 ms that starts in the last millisecond of a day and ends
\* on the next day
C21_Witness ==
    /\ MappedTest
    /\ mapper.args.suiteStartTime = << 1, 761, 868, 799, 999 >>
    /\ mapper.args.test.duration = Some(1500)
    /\ Out.start_time.year = 2025 /\ Out.start_time.month = 10
    /\ Out.start_time.day = 30 /\ Out.start_time.hour = 23
    /\ Out.start_time.ms = 999
    /\ Out.end_time.day = 31 /\ Out.end_time.hour = 0
    /\ Out.end_time.second = 1 /\ Out.end_time.ms = 499

\* The instants at which mapJestSuiteToSuiteRun runs: the readings of the
\* clock it can make for a suite
RunInstants(args) ==
    {Reading(args.clock, k) : k \in 1..(2 + Len(args.suite.testResults))}

\* C22: the start_time of a SuiteRun is the start instant the suite reports
\* and its end_time the end instant it reports; a field whose instant is
\* absent is an instant at which the mapper runs.
C22_SuiteRunTimes ==
    MappedSuite =>
        LET suite == mapper.args.suite
        IN  /\ suite.startTime /= Undefined
                  => InstantOf(Out.start_time) = suite.startTime[1]
            /\ suite.startTime = Undefined
                  => InstantOf(Out.start_time) \in RunInstants(mapper.args)
            /\ suite.endTime /= Undefined
                  => InstantOf(Out.end_time) = suite.endTime[1]
            /\ suite.endTime = Undefined
                  => InstantOf(Out.end_time) \in RunInstants(mapper.args)

\* A suite that reports its start and not its end
C22_Witness ==
    /\ MappedSuite
    /\ mapper.args.suite.startTime = Some(SuiteStartedLate)
    /\ mapper.args.suite.endTime = Undefined
    /\ InstantOf(Out.start_time) = SuiteStartedLate
    /\ InstantOf(Out.end_time) = mapper.args.clock.start

\* The ancestor titles and the title of a test joined by " > "
JoinedTitles(test) ==
    Join(test.ancestorTitles \o << test.title >>, << " ", ">", " " >>)

\* C23 as claimed: spec_description is the ancestor titles in their order
\* followed by the title, all joined by " > "; the separator is omitted
\* exactly when the test has no ancestors.
C23_SeparatorUnlessNoAncestors ==
    MappedTest =>
        Out.spec_description =
            IF mapper.args.test.ancestorTitles = << >>
            THEN mapper.args.test.title
            ELSE JoinedTitles(mapper.args.test)

\* C23: spec_description is the ancestor titles in their order followed by
\* the title, all joined by " > "; when the ancestor titles joined by " > "
\* are the empty string (no ancestors, or one ancestor with an empty title)
\* spec_description is the title alone.
C23_SpecDescription ==
    MappedTest =>
        Out.spec_description =
            IF Join(mapper.args.test.ancestorTitles, << " ", ">",
                  " " >>) = << >>
            THEN mapper.args.test.title
            ELSE JoinedTitles(mapper.args.test)

\* Ancestors [A, B] and title C give "A > B > C"
C23_Witness ==
    /\ MappedTest
    /\ mapper.args.test.ancestorTitles = << << "A" >>, << "B" >> >>
    /\ mapper.args.test.title = << "C" >>
    /\ Out.spec_description = << "A", " ", ">", " ", "B", " ", ">", " ", "C" >>

\* The final segment of a path: what follows its last slash
FinalSegment(path) ==
    LET slashes == {i \in 1..Len(path) : path[i] = "/"}
        last == IF slashes = {} THEN 0
                ELSE CHOOSE i \in slashes : \A k \in slashes : k <= i
    IN  SubSeq(path, last + 1, Len(path))

TestKinds == {<< "t", "e", "s", "t" >>, << "s", "p", "e", "c" >>}
Extensions == {<< "j", "s" >>, << "t", "s" >>, << "j", "s", "x" >>, << "t",
      "s", "x" >>}

\* name is segment without a trailing .test.<ext> or .spec.<ext>
WithoutTestEnding(segment, name) ==
    IF \E kind \in TestKinds, ext \in Extensions, n \in 0..Len(segment) :
          segment = SubSeq(segment, 1, n)
                       \o << "." >> \o kind \o << "." >> \o ext
    THEN \E kind \in TestKinds, ext \in Extensions :
            segment = name \o << "." >> \o kind \o << "." >> \o ext
    ELSE name = segment

\* C24: suite_name is the final segment of the file path of the suite with
\* a trailing .test.<ext> or .spec.<ext> (ext in js, ts, jsx, tsx) removed,
\* and the segment unchanged otherwise; /a/b/calculator.test.ts gives
\* calculator and /a/b/util.spec.js gives util.
C24_SuiteName ==
    MappedSuite =>
        WithoutTestEnding(FinalSegment(mapper.args.suite.testFilePath),
                          Out.suite_name)

\* The two examples
C24_Witness ==
    /\ MappedSuite
    /\ \/ /\ mapper.args.suite.testFilePath = << "/", "a", "/", "b", "/", "c",
                                                 "a", "l", "c", "u", "l", "a",
                                                 "t", "o", "r", ".", "t", "e",
                                                 "s", "t", ".", "t", "s" >>
          /\ Out.suite_name = << "c", "a", "l", "c", "u", "l", "a", "t", "o",
                                 "r" >>
       \/ /\ mapper.args.suite.testFilePath = << "/", "a", "/", "b", "/", "u",
                                                 "t", "i", "l", ".", "s", "p",
                                                 "e", "c", ".", "j", "s" >>
          /\ Out.suite_name = << "u", "t", "i", "l" >>

\* C25: mapJestResultsToTestRun copies its metadata: test_project_id and
\* test_project_name are the projectId and projectName arguments, git_branch
\* and git_sha are gitInfo.branch and gitInfo.sha, build_trigger_actor and
\* build_url are ciInfo.actor and ciInfo.buildUrl, client_type is the fixed
\* name of this client; the arguments are left as they were given.
C25_MetadataCopied ==
    /\ [](MappedResults =>
            /\ Out.test_project_id = mapper.args.projectId
            /\ Out.test_project_name = mapper.args.projectName
            /\ Out.git_branch = mapper.args.gitInfo.branch
            /\ Out.git_sha = mapper.args.gitInfo.sha
            /\ Out.build_trigger_actor = mapper.args.ciInfo.actor
            /\ Out.build_url = mapper.args.ciInfo.buildUrl
            /\ Out.client_type = "fern-jest-client")
    /\ [][mapper'.args = mapper.args]_vars

\* A run built on a CI provider, on a branch with a commit
C25_Witness ==
    /\ MappedResults
    /\ Out.test_project_id = "other-id"
    /\ Out.test_project_name = "project-name"
    /\ Out.git_branch = << "m", "a", "i", "n" >>
    /\ Out.git_sha = << "0", "1", "2", "3", "4", "5", "6", "7", "8", "9", "a",
                        "b", "c", "d", "e", "f" >>
    /\ Out.build_trigger_actor = "octocat"
    /\ Out.build_url = "https://ci.example/run/1"

\* The summary of a test run has been generated
Summarized == mapper.fn = "generateTestSummary" /\ mapper.out /= Undefined

\* The SpecRuns of a test run, each named by its suite and its place in it
SpecRunsOf(testRun) ==
    UNION {{<< i, j >> : j \in 1 .. Len(testRun.suite_runs[i].spec_runs)} :
              i \in 1 .. Len(testRun.suite_runs)}

\* The number of SpecRuns of a test run that have one of the statuses
WithStatus(testRun, statuses) ==
    Cardinality({p \in SpecRunsOf(testRun) :
        testRun.suite_runs[p[1]].spec_runs[p[2]].status \in statuses})

\* C26: in the summary the suite count is the number of SuiteRuns, total is
\* the number of SpecRuns over all suites, passed, failed and skipped are
\* the numbers of SpecRuns with exactly that status, so that passed + failed
\* + skipped <= total with equality exactly when no SpecRun is pending or
\* unknown; the commit shown is the first 8 characters of git_sha.
C26_SummaryFigures ==
    Summarized =>
        LET run == mapper.args.testRun
            figures == Out[6]
            sha == run.git_sha
        IN /\ Out[5].value = Len(run.suite_runs)
           /\ figures.total = Cardinality(SpecRunsOf(run))
           /\ figures.passed = WithStatus(run, {"passed"})
           /\ figures.failed = WithStatus(run, {"failed"})
           /\ figures.skipped = WithStatus(run, {"skipped"})
           /\ figures.passed + figures.failed + figures.skipped
                 <= figures.total
           /\ (figures.passed + figures.failed + figures.skipped
                 = figures.total)
                 <=> WithStatus(run, {"pending", "unknown"}) = 0
           /\ Len(Out[4].value) = (IF Len(sha) < 8 THEN Len(sha) ELSE 8)
           /\ \A k \in 1 .. Len(Out[4].value) : Out[4].value[k] = sha[k]

\* A run with a long commit, two suites, and SpecRuns of every status but
\* failed, so that the three figures add up to less than the total
C26_Witness ==
    /\ Summarized
    /\ Len(mapper.args.testRun.git_sha) > 8
    /\ Out[4].value = << "0", "1", "2", "3", "4", "5", "6", "7" >>
    /\ Out[5].value = 2
    /\ Out[6].total = 3
    /\ Out[6].passed = 0
    /\ Out[6].failed = 0
    /\ Out[6].skipped = 1
    /\ WithStatus(mapper.args.testRun, {"pending"}) = 1
    /\ WithStatus(mapper.args.testRun, {"unknown"}) = 1

\* C30: in every mapped SuiteRun the start_time of every contained SpecRun
\* equals the start_time of the SuiteRun, also when the suite reports no
\* start instant and the current time is taken instead.
C30_SpecRunsStartWithSuite ==
    MappedSuite =>
        \A j \in 1..Len(Out.spec_runs) :
            Out.spec_runs[j].start_time = Out.start_time

\* --------------------------------------------- properties of getCIInfo
\* getCIInfo has run
LookedUp == lookup.env /= Undefined /\ lookup.out /= Undefined
CIInfo == lookup.out[1]
Env == lookup.env[1]

\* A variable is set: it has a value that is not the empty string
IsSet(name) == Env[name] /= Undefined /\ Env[name][1] /= ""

\* The providers in the order of their priority
Providers == << "github-actions", "gitlab-ci", "jenkins", "circleci" >>

NoProvider == \A i \in 1..Len(Providers) : ~IsSet(ActorVariables[i])
SomeIndicator == \E n \in Range(CIIndicators) : IsSet(n)

\* C27: getCIInfo is a priority chain GitHub Actions, GitLab CI, Jenkins,
\* CircleCI: of the providers whose variable is set the earliest wins; with
\* no provider variable set the result is the local-developer default
\* (actor local-developer, buildUrl empty, isCI false) when no generic CI
\* indicator is present and the generic fallback (actor ci-user, isCI true)
\* when one is; isCI is false only for the local-developer result.
C27_ProviderChain ==
    LookedUp =>
        /\ \A i \in 1..Len(Providers) :
              (IsSet(ActorVariables[i])
                 /\ \A j \in 1..(i - 1) : ~IsSet(ActorVariables[j]))
              => /\ CIInfo.provider = Providers[i]
                 /\ CIInfo.actor = Env[ActorVariables[i]][1]
                 /\ CIInfo.isCI
        /\ (NoProvider /\ ~SomeIndicator)
              => CIInfo = [actor |-> "local-developer", buildUrl |-> << >>,
                           isCI |-> FALSE]
        /\ (NoProvider /\ SomeIndicator)
              => /\ CIInfo.actor = "ci-user"
                 /\ CIInfo.isCI
                 /\ CIInfo.provider = "unknown"
        /\ ~CIInfo.isCI
              => /\ CIInfo.actor = "local-developer"
                 /\ CIInfo.buildUrl = << >>
                 /\ NoProvider /\ ~SomeIndicator

\* The variables of GitLab CI, Jenkins and CircleCI are set, the one of
\* GitHub Actions is set to the empty string: GitLab CI wins
C27_Witness ==
    /\ LookedUp
    /\ Env["GITHUB_ACTOR"] = Some("")
    /\ IsSet("GITLAB_USER_LOGIN") /\ IsSet("BUILD_USER")
    /\ IsSet("CIRCLE_USERNAME") /\ IsSet("CI_PROJECT_URL")
    /\ CIInfo.provider = "gitlab-ci"
    /\ CIInfo.buildUrl = << "CI_PROJECT_URL", "/-/pipelines/",
                            "CI_PIPELINE_ID" >>

\* ------------------------------------- properties of the reporting path
\* The step of onRunComplete that failed, if one did before the report
FailedStep ==
    IF reporter.run = "done" /\ reporter.trace /= << >>
       /\ reporter.trace[Len(reporter.trace)] = "log:error"
    THEN reporter.trace[Len(reporter.trace) - 1]
    ELSE "none"

\* C29: with the fail-on-error flag not set, onRunComplete of an enabled
\* reporter never raises, whichever step fails: the git lookup, the CI
\* lookup, the mapping, the summary or the report.
C29_ReportingFailureSwallowed ==
    (reporter.present /\ reporter.enabled
        /\ reporter.failOnError /= Some("true"))
    => /\ reporter.runResult /= "raised"
       /\ reporter.runThrown = Undefined
       /\ FailedStep /= "none" => reporter.runResult = "completed"

\* The mapping threw with the flag unset and onRunComplete returned
C29_Witness ==
    /\ reporter.present /\ reporter.enabled
    /\ reporter.failOnError = Undefined
    /\ FailedStep = "map:thrown"
    /\ reporter.runResult = "completed"

\* --------------------------------------- properties of the fair client
\* C28: every report call eventually completes (returns or raises) when
\* every request eventually resolves; it never issues more than maxRetries
\* + 1 requests, and when every attempt failed retryably it has issued
\* exactly maxRetries + 1 requests when it raises.
C28_ReportTerminates ==
    /\ \A c \in Calls : IsReport(c) ~> Done(c)
    /\ [](\A c \in Calls : IsReport(c) =>
            /\ call[c].requests <= MaxRetries + 1
            /\ call[c].failed <= MaxRetries + 1
            /\ (Done(c) /\ call[c].result = "raised"
                  /\ RetryableFailure(LastOutcome(c)))
               => /\ call[c].requests = MaxRetries + 1
                  /\ call[c].failed = MaxRetries + 1)

\* A report call that raised after maxRetries + 1 requests, none answered
C28_Witness ==
    \E c \in Calls :
        /\ IsReport(c) /\ Done(c) /\ call[c].result = "raised"
        /\ LastOutcome(c).response = Undefined
        /\ call[c].failed = call[c].requests
        /\ MaxRetries = 3
        /\ call[c].requests = 4


====
